---- MODULE Spec2Model ----
(***************************************************************************)
(* HeatShield AI backend: the tiered weather resolver (getLiveWeather),    *)
(* the risk scorer (computeRiskScoreFallback, classifyRisk), the scoring   *)
(* gateway (predictRisk) and the Socket.IO broadcast engine of server.js.  *)
(*                                                                         *)
(* Numbers are fixed point.  Temperatures, humidities and wind speeds are  *)
(* in hundredths (t100 = 100 * temperature), risk scores in thousandths          *)
(* (s1000 = 1000 * score).  The Rothfusz polynomial is evaluated exactly   *)
(* on seven-limb base-10000 naturals, because its terms exceed 32 bits.      *)
(***************************************************************************)
EXTENDS Integers, Sequences, FiniteSets, TLC

VARIABLES
    env,        \* what the outside world may answer: the responses of
                \* Open-Meteo per city, of OpenWeatherMap and of the ML
                \* service, and the values Math.random() may take
    apiKey,     \* process.env.OPENWEATHER_API_KEY
    budget,     \* how many broadcast cycles and how many request:city
                \* events the run goes up to
    scorer,     \* one application of computeRiskScoreFallback and classifyRisk
    predict,    \* the predictRisk call in progress
    predicted,  \* the settled predictRisk calls, oldest first
    live,       \* the getLiveWeather call in progress
    listening,  \* server.listen has called back
    started,    \* the number of broadcastWeatherUpdate calls so far
    cycles,     \* the broadcastWeatherUpdate calls awaiting Promise.all:
                \* cycle number -> city -> the state of that city's task
    now,        \* the clock behind new Date()
    resolved,   \* the array Promise.all resolved to in the cycle published
                \* last (line 117)
    lastBroadcastData,
    sockets,    \* socket id -> its connection state and what it was sent
    requests,   \* the request:city handlers, in order of arrival
    store,      \* the persistence store: the RiskRecord model risk.js
                \* loaded, or null, and the state of the connection that
                \* start() opens with connectDB
    hourly,     \* the GET /api/forecast/hourly request in progress
    risk,       \* the GET /api/risk/predict request in progress
    forecast,   \* the GET /api/forecast/7days request in progress
    page,       \* the dashboard (App): its state and its fetchData calls
    chart,      \* the forecast chart: its state and its hourly requests
    client      \* the browser's socket module: the sockets it has made,
                \* the one its variable refers to, and what it has emitted

scoreVars == <<scorer, predict, predicted>>
serverVars == <<listening, started, cycles, now, resolved, lastBroadcastData,
                sockets, requests>>
routeVars == <<hourly, risk, forecast>>
clientVars == <<page, chart, client>>
vars == <<env, apiKey, budget, store, scoreVars, live, serverVars, routeVars,
          clientVars>>

\* null and undefined where an object is expected, the absent string, and
\* the one value standing for every non-number (NaN, undefined) where a
\* number is expected
Null == [null |-> TRUE]
Undefined == [undefined |-> TRUE]
NoString == "undefined"
NaN == -(2 * 1000 * 1000 * 1000)

IsNum(v) == v # NaN

Min(a, b) == IF a < b THEN a ELSE b
Max(a, b) == IF a > b THEN a ELSE b

(***************************************************************************)
(* Exact arithmetic on naturals below Base^NLimbs, little endian.          *)
(***************************************************************************)
Base == 10000
NLimbs == 7

\* A big is applied to operand values, never to unevaluated expressions:
\* each operation is a function of its operands.
Limbs == [1..NLimbs -> Nat]

\* the element of a singleton
The(S) == CHOOSE x \in S : TRUE

RECURSIVE IntLimbs(_, _)
IntLimbs(n, i) ==
    IF i > NLimbs THEN <<>>
    ELSE <<n % Base>> \o IntLimbs(n \div Base, i + 1)

\* the limbs of 0 <= n < 2^31, lowest first
BigOfInt(n) == IntLimbs(n, 1)

RECURSIVE MulLimbs(_, _, _, _)
MulLimbs(a, k, i, carry) ==
    IF i > NLimbs THEN <<>>
    ELSE LET v == a[i] * k + carry
         IN  <<v % Base>> \o MulLimbs(a, k, i + 1, v \div Base)

\* a * k for 0 <= k <= 200000
MulBig[a \in Limbs, k \in Nat] == MulLimbs(a, k, 1, 0)

BigMul(a, k) == MulBig[a, k]

RECURSIVE AddLimbs(_, _, _, _)
AddLimbs(a, b, i, carry) ==
    IF i > NLimbs THEN <<>>
    ELSE LET v == a[i] + b[i] + carry
         IN  <<v % Base>> \o AddLimbs(a, b, i + 1, v \div Base)

AddBig[a \in Limbs, b \in Limbs] == AddLimbs(a, b, 1, 0)

BigAdd(a, b) == AddBig[a, b]

RECURSIVE SubLimbs(_, _, _, _)
SubLimbs(a, b, i, borrow) ==
    IF i > NLimbs THEN <<>>
    ELSE LET v == a[i] - b[i] - borrow
         IN  IF v < 0 THEN <<v + Base>> \o SubLimbs(a, b, i + 1, 1)
                      ELSE <<v>> \o SubLimbs(a, b, i + 1, 0)

\* a - b for a >= b
SubBig[a \in Limbs, b \in Limbs] == SubLimbs(a, b, 1, 0)

BigSub(a, b) == SubBig[a, b]

RECURSIVE GeqLimbs(_, _, _)
GeqLimbs(a, b, i) ==
    IF i = 0 THEN TRUE
    ELSE IF a[i] # b[i] THEN a[i] > b[i]
    ELSE GeqLimbs(a, b, i - 1)

GeqBig[a \in Limbs, b \in Limbs] == GeqLimbs(a, b, NLimbs)

BigGeq(a, b) == GeqBig[a, b]

RECURSIVE DivLimbs(_, _, _, _)
DivLimbs(a, k, i, rem) ==
    IF i = 0 THEN <<>>
    ELSE LET v == rem * Base + a[i]
         IN  DivLimbs(a, k, i - 1, v % k) \o <<v \div k>>

\* floor(a / k) for 1 <= k <= 200000
DivBig[a \in Limbs, k \in Nat] == DivLimbs(a, k, NLimbs, 0)

BigDiv(a, k) == DivBig[a, k]

\* a * Base^n and floor(a / Base^n)
RECURSIVE ShiftLimbs(_, _, _)
ShiftLimbs(a, n, i) ==
    IF i > NLimbs THEN <<>>
    ELSE <<IF i - n >= 1 /\ i - n <= NLimbs THEN a[i - n] ELSE 0>>
         \o ShiftLimbs(a, n, i + 1)

ShiftBig[a \in Limbs, n \in Int] == ShiftLimbs(a, n, 1)

BigShl(a, n) == ShiftBig[a, n]
BigShr(a, n) == ShiftBig[a, 0 - n]

\* the value of a big known to be below 2^31
BigToInt(a) == a[1] + a[2] * Base + a[3] * Base * Base

(***************************************************************************)
(* mlService.js: computeRiskScoreFallback and classifyRisk.                *)
(***************************************************************************)
\* T = temperature * 9 / 5 + 32, in thousandths of a degree Fahrenheit
Fahrenheit1000(t100) == 18 * t100 + 32000

\* The terms of HI with a positive coefficient, in units of 10^-18 degrees F
\* (coefficient * 10^8, T * 10^3 per factor, RH * 10^2 per factor).
HIPositive(T, RH) ==
    LET a1 == BigMul(BigShl(BigMul(BigOfInt(204901523), T), 1), 1000)
        a2 == BigShl(BigMul(BigOfInt(1014333127), RH), 2)
        a6 == BigMul(BigMul(BigMul(BigMul(BigOfInt(122874), T), T), RH), 100)
        a7 == BigMul(BigMul(BigMul(BigMul(BigOfInt(85282), T), RH), RH), 1000)
    IN  BigAdd(BigAdd(a1, a2), BigAdd(a6, a7))

\* The terms of HI with a negative coefficient, same units.
HINegative(T, RH) ==
    LET a0 == BigMul(BigShl(BigOfInt(42379), 3), 1000)
        a3 == BigMul(BigShl(BigMul(BigMul(BigOfInt(22475541), T), RH), 1), 10)
        a4 == BigShl(BigMul(BigMul(BigOfInt(683783), T), T), 1)
        a5 == BigMul(BigShl(BigMul(BigMul(BigOfInt(5481717), RH), RH), 1), 100)
        a8 == BigMul(BigMul(BigMul(BigMul(BigOfInt(199), T), T), RH), RH)
    IN  BigAdd(BigAdd(BigAdd(a0, a3), BigAdd(a4, a5)), a8)

\* 10^18 * k for small k
E18(k) == BigMul(BigShl(BigOfInt(k), 4), 100)

\* 54 * 10^18 * clamp((HI - 30) / 30, 0, 1), HI in Celsius:
\* ((HIF - 32) * 5 / 9 - 30) / 30 = (HIF - 86) / 54.
ClampHiFactor[pos \in Limbs, neg \in Limbs] ==
    IF ~BigGeq(pos, neg) THEN BigOfInt(0)
    ELSE IF BigGeq(BigSub(pos, neg), E18(54)) THEN E18(54)
    ELSE BigSub(pos, neg)

HiFactorNum(t100, h100) ==
    ClampHiFactor[HIPositive(Fahrenheit1000(t100), h100),
                  BigAdd(HINegative(Fahrenheit1000(t100), h100), E18(86))]

\* Math.max(0, Math.min(100, Math.round(score * 100) / 100)) in hundredths,
\* score * 100 being (plus - minus) / (30 * 54 * 10^18)
RoundScore[plus \in Limbs, minus \in Limbs] ==
    IF ~BigGeq(plus, minus) THEN 0
    ELSE Min(BigToInt(BigDiv(BigDiv(BigShr(BigAdd(BigMul(BigSub(plus, minus), 2),
                                                  E18(1620)), 4), 100), 3240)),
             10000)

\* Math.round(score * 100) / 100, returned in thousandths.  The factors are
\* kept over the common denominator 30 * 54 * 10^18 of 100 * score.
\* Domain: t100 >= -1777 (T >= 0) and h100 >= 0.
ExactRiskScore(t100, h100, w100) ==
    LET tempFactor     == Min(Max(48 * (t100 - 2500), 0), 120000)
        humidityFactor == Min(Max(6 * h100, 0), 60000)
        windRelief     == Min(Max(5 * w100, 0), 15000)
    IN  10 * RoundScore[BigAdd(BigMul(E18(54), tempFactor + humidityFactor),
                               BigMul(HiFactorNum(t100, h100), 105000)),
                        BigMul(E18(54), windRelief)]

\* A temperature, humidity or wind speed that is not a number (undefined,
\* NaN) makes every factor it enters NaN, and so the score.
computeRiskScoreFallback(temperature, humidity, windSpeed) ==
    IF IsNum(temperature) /\ IsNum(humidity) /\ IsNum(windSpeed)
    THEN ExactRiskScore(temperature, humidity, windSpeed)
    ELSE NaN

\* classifyRisk with the boundaries on the wrong side
classifyRisk_Inclusive(score) ==
    IF IsNum(score) /\ score <= 25000 THEN "Low"
    ELSE IF IsNum(score) /\ score <= 50000 THEN "Medium"
    ELSE IF IsNum(score) /\ score <= 75000 THEN "High"
    ELSE "Severe"

\* Every comparison with NaN is false, so NaN falls through to "Severe".
classifyRisk(score) ==
    IF IsNum(score) /\ score < 25000 THEN "Low"
    ELSE IF IsNum(score) /\ score < 50000 THEN "Medium"
    ELSE IF IsNum(score) /\ score < 75000 THEN "High"
    ELSE "Severe"

(***************************************************************************)
(* mlService.js (weather service part): CITY_COORDS and the three tiers.   *)
(* A Measurement keeps the fields the scorer and the snapshot read: city,  *)
(* temperature, humidity, wind_speed and source.                           *)
(***************************************************************************)
CITY_COORDS ==
    <<"Delhi", "Mumbai", "Chennai", "Kolkata", "Bengaluru", "Hyderabad",
      "Ahmedabad", "Jaipur", "Lucknow", "Nagpur", "Bhopal", "Varanasi",
      "Patna", "Thiruvananthapuram", "Chandigarh">>

OwnKeys == {CITY_COORDS[i] : i \in 1..Len(CITY_COORDS)}

\* Keys every object literal inherits from Object.prototype: CITY_COORDS[k]
\* is a function there, which is truthy and has no lat or lon.
InheritedKeys == {"constructor", "toString"}

\* CITY_COORDS[city], as far as the code reads it
Coords(city) ==
    IF city \in OwnKeys THEN "coords"
    ELSE IF city \in InheritedKeys THEN "inherited"
    ELSE NoString

\* truthiness of a string-or-undefined and of an object-or-null
TruthyStr(v) == v \notin {NoString, ""}
Truthy(v) == v \notin {Undefined, Null}

\* Math.round(x * 10) / 10 on hundredths: half up, NaN for a missing field
RoundTenth(v100) ==
    IF IsNum(v100) THEN ((v100 + 5) \div 10) * 10 ELSE NaN

Thrown == [thrown |-> TRUE, value |-> Undefined]
Value(v) == [thrown |-> FALSE, value |-> v]

\* the try block of getOpenMeteoWeather on the outcome of axios.get
OpenMeteoTry(city, response) ==
    IF response.kind # "ok" THEN Thrown
    ELSE IF response.data = Undefined THEN Thrown
    ELSE IF response.data.current = Undefined THEN Thrown
    ELSE LET current == response.data.current
         IN  Value([city        |-> city,
                    temperature |-> RoundTenth(current.temperature_2m),
                    humidity    |-> RoundTenth(current.relative_humidity_2m),
                    wind_speed  |-> RoundTenth(current.wind_speed_10m),
                    source      |-> "open-meteo"])

\* getOpenMeteoWeather with the catch left out
getOpenMeteoWeather_NoCatch(city, response) == OpenMeteoTry(city, response)

\* getOpenMeteoWeather after its early return: try, and catch returning null
getOpenMeteoWeather(city, response) ==
    LET r == OpenMeteoTry(city, response)
    IN  IF r.thrown THEN Value(Null) ELSE r

\* the try block of the OpenWeatherMap tier on the outcome of axios.get
OpenWeatherMapTry(city, response) ==
    IF response.kind # "ok" THEN Thrown
    ELSE IF response.data = Undefined THEN Thrown
    ELSE IF response.data.main = Undefined THEN Thrown
    ELSE IF response.data.wind = Undefined THEN Thrown
    ELSE IF response.data.weather = <<>> THEN Thrown
    ELSE Value([city        |-> city,
                temperature |-> response.data.main.temp,
                humidity    |-> response.data.main.humidity,
                wind_speed  |-> response.data.wind.speed,
                source      |-> "openweathermap"])

\* the OpenWeatherMap tier with its catch: null stands for falling through
OpenWeatherMapTier(city, response) ==
    LET r == OpenWeatherMapTry(city, response)
    IN  IF r.thrown THEN Value(Null) ELSE r

baseTemps ==
    [c \in OwnKeys |->
        CASE c = "Delhi" -> 32 [] c = "Mumbai" -> 30 [] c = "Chennai" -> 31
          [] c = "Kolkata" -> 30 [] c = "Bengaluru" -> 27 [] c = "Hyderabad" -> 31
          [] c = "Ahmedabad" -> 33 [] c = "Jaipur" -> 30 [] c = "Lucknow" -> 28
          [] c = "Nagpur" -> 33 [] c = "Bhopal" -> 30 [] c = "Varanasi" -> 29
          [] c = "Patna" -> 28 [] c = "Thiruvananthapuram" -> 29
          [] OTHER -> 25]

baseHumidity ==
    [c \in OwnKeys |->
        CASE c = "Delhi" -> 45 [] c = "Mumbai" -> 70 [] c = "Chennai" -> 65
          [] c = "Kolkata" -> 65 [] c = "Bengaluru" -> 55 [] c = "Hyderabad" -> 50
          [] c = "Ahmedabad" -> 40 [] c = "Jaipur" -> 35 [] c = "Lucknow" -> 50
          [] c = "Nagpur" -> 35 [] c = "Bhopal" -> 40 [] c = "Varanasi" -> 50
          [] c = "Patna" -> 55 [] c = "Thiruvananthapuram" -> 75
          [] OTHER -> 45]

\* Math.random() is num / RandomDen for a num in env.random
RandomDen == 4

\* Math.round(x * 10) / 10 in hundredths, for x = num / (RandomDen * 100)
RoundTenthOver(num) ==
    ((2 * num + 10 * RandomDen) \div (20 * RandomDen)) * 10

\* getMockWeather(city) with its three Math.random() draws.  For an inherited
\* key the table lookup is a function, the sum a string, the product NaN.
getMockWeather(city, r1, r2, r3) ==
    LET temp100 == (IF city \in OwnKeys THEN baseTemps[city] ELSE 30)
                       * 100 * RandomDen + (400 * r1 - 200 * RandomDen)
        hum100  == (IF city \in OwnKeys THEN baseHumidity[city] ELSE 50)
                       * 100 * RandomDen + (1000 * r2 - 500 * RandomDen)
        wind100 == 1500 * r3 + 200 * RandomDen
    IN  [city        |-> city,
         temperature |-> IF city \in InheritedKeys THEN NaN
                         ELSE RoundTenthOver(temp100),
         humidity    |-> IF city \in InheritedKeys THEN NaN
                         ELSE RoundTenthOver(Min(Max(hum100, 1000 * RandomDen),
                                                 9500 * RandomDen)),
         wind_speed  |-> RoundTenthOver(wind100),
         source      |-> "mock"]

MockWeathers(city) ==
    {getMockWeather(city, r1, r2, r3) : r1 \in env.random, r2 \in env.random,
                                        r3 \in env.random}

(***************************************************************************)
(* getLiveWeather as a process: pc is the request it is suspended on,      *)
(* tried the requests it has sent and answers what came back, in order.    *)
(***************************************************************************)
Returned(call, weather) ==
    [call EXCEPT !.pc = "returned", !.weather = weather]

Rejected(call) == [call EXCEPT !.pc = "rejected"]

\* line 272: the synthetic tier
FallbackToMock(call) == {Returned(call, m) : m \in MockWeathers(call.city)}

\* the fallback with the OpenWeatherMap tier skipped
AfterOpenMeteoNull_SkipsTier(call) == FallbackToMock(call)

\* lines 243-272, entered when the primary tier has yielded null
AfterOpenMeteoNull(call) ==
    IF TruthyStr(apiKey) /\ TruthyStr(Coords(call.city))
    THEN {[call EXCEPT !.pc = "openweathermap",
                       !.tried = Append(call.tried, "openweathermap")]}
    ELSE FallbackToMock(call)

\* getLiveWeather(city) up to its first suspension
getLiveWeatherCall(city) ==
    LET call == [city |-> city, pc |-> "start", tried |-> <<>>,
                 answers |-> <<>>, weather |-> Null]
    IN  IF TruthyStr(Coords(city))
        THEN {[call EXCEPT !.pc = "open-meteo", !.tried = <<"open-meteo">>]}
        ELSE AfterOpenMeteoNull(call)

\* resumption when the Open-Meteo request settles
OnOpenMeteo(call0, response) ==
    LET call == [call0 EXCEPT !.answers = Append(call0.answers, response)]
        r == getOpenMeteoWeather(call.city, response)
    IN  IF r.thrown THEN {Rejected(call)}
        ELSE IF Truthy(r.value) THEN {Returned(call, r.value)}
        ELSE AfterOpenMeteoNull(call)

\* resumption when the OpenWeatherMap request settles
OnOpenWeatherMap(call0, response) ==
    LET call == [call0 EXCEPT !.answers = Append(call0.answers, response)]
        r == OpenWeatherMapTier(call.city, response)
    IN  IF r.thrown THEN {Rejected(call)}
        ELSE IF Truthy(r.value) THEN {Returned(call, r.value)}
        ELSE FallbackToMock(call)

(***************************************************************************)
(* mlService.js: predictRisk as a process suspended on axios.post.         *)
(* confidence is in tenths of a percent.                                   *)
(***************************************************************************)
predictRiskCall(temperature, humidity, windSpeed) ==
    [temperature |-> temperature, humidity |-> humidity,
     wind_speed |-> windSpeed, pc |-> "ml", prediction |-> Null]

\* the try block returning whatever prediction the body carries
PredictRiskTry_IgnoresSuccess(call, response) ==
    IF response.kind # "ok" THEN Thrown
    ELSE IF response.data = Undefined THEN Thrown
    ELSE IF response.data.prediction # Undefined
         THEN Value(response.data.prediction)
    ELSE Thrown

\* lines 46-55
PredictRiskTry(call, response) ==
    IF response.kind # "ok" THEN Thrown
    ELSE IF response.data = Undefined THEN Thrown
    ELSE IF response.data.success = "true" THEN Value(response.data.prediction)
    ELSE Thrown

\* the catch block passing humidity and wind speed in the wrong order
PredictRiskCatch_SwapsArgs(call) ==
    LET riskScore == computeRiskScoreFallback(call.temperature, call.wind_speed,
                                              call.humidity)
    IN  Value([risk_score    |-> riskScore,
               risk_category |-> classifyRisk(riskScore),
               confidence    |-> 850,
               input         |-> [temperature |-> call.temperature,
                                  humidity    |-> call.humidity,
                                  wind_speed  |-> call.wind_speed],
               source        |-> "fallback"])

\* the catch block letting the error through
PredictRiskCatch_Rethrows(call) == Thrown

\* lines 56-69
PredictRiskCatch(call) ==
    LET Returns[riskScore \in Int] ==
            LET riskCategory == classifyRisk(riskScore)
            IN  Value([risk_score    |-> riskScore,
                       risk_category |-> riskCategory,
                       confidence    |-> 850,
                       input         |-> [temperature |-> call.temperature,
                                          humidity    |-> call.humidity,
                                          wind_speed  |-> call.wind_speed],
                       source        |-> "fallback"])
    IN  Returns[computeRiskScoreFallback(call.temperature, call.humidity,
                                         call.wind_speed)]

\* resumption when the ML request settles
OnMl(call, response) ==
    LET t == PredictRiskTry(call, response)
    IN  The({IF r.thrown THEN [call EXCEPT !.pc = "rejected"]
             ELSE [call EXCEPT !.pc = "returned", !.prediction = r.value] :
             r \in {IF t.thrown THEN PredictRiskCatch(call) ELSE t}})

(***************************************************************************)
(* The outside world.                                                      *)
(***************************************************************************)
Timeout == [kind |-> "timeout", data |-> Undefined]
NetworkError == [kind |-> "network", data |-> Undefined]
HttpError == [kind |-> "http-error", data |-> Undefined]
Ok(data) == [kind |-> "ok", data |-> data]

Current(t, h, w) ==
    [temperature_2m |-> t, relative_humidity_2m |-> h, wind_speed_10m |-> w]

\* Open-Meteo: failures, an empty body, a body without "current", a body whose
\* "current" lacks the temperature, and two readings (in hundredths)
OpenMeteoResponses ==
    {Timeout, NetworkError, HttpError, Ok(Undefined),
     Ok([current |-> Undefined]),
     Ok([current |-> Current(NaN, 5500, 1200)]),
     Ok([current |-> Current(4204, 1996, 500)]),
     Ok([current |-> Current(3125, 6455, 1234)])}

Owm(t, h, w, weather) ==
    [main |-> [temp |-> t, humidity |-> h], wind |-> [speed |-> w],
     weather |-> weather]

\* OpenWeatherMap: failures, bodies lacking main, wind or weather[0], a body
\* whose main lacks temp, and a reading
OpenWeatherMapResponses ==
    {Timeout, NetworkError, HttpError, Ok(Undefined),
     Ok([main |-> Undefined, wind |-> [speed |-> 300], weather |-> <<"haze">>]),
     Ok([main |-> [temp |-> 3000, humidity |-> 4000], wind |-> Undefined,
         weather |-> <<"haze">>]),
     Ok(Owm(3000, 4000, 300, <<>>)),
     Ok(Owm(NaN, 4000, 300, <<"haze">>)),
     Ok(Owm(3847, 2300, 411, <<"clear sky">>))}

\* a provider asked for latitude=undefined answers with an error
ResponsesFor(city, responses) ==
    IF city \in InheritedKeys THEN {r \in responses : r.kind # "ok"}
    ELSE responses

CityIds == OwnKeys \cup InheritedKeys \cup {"Atlantis", NoString}

Prediction(score, category, confidence) ==
    [risk_score |-> score, risk_category |-> category,
     confidence |-> confidence, source |-> "ml"]

\* the ML service: failures, an empty body, success false or absent (with and
\* without a prediction), and success with a prediction, with an
\* inconsistent prediction, with a prediction that names no source and with
\* none
MlResponses ==
    {Timeout, NetworkError, HttpError, Ok(Undefined),
     Ok([success |-> "false", prediction |-> Undefined]),
     Ok([success |-> "false", prediction |-> Prediction(12340, "Low", 990)]),
     Ok([success |-> NoString, prediction |-> Prediction(12340, "Low", 990)]),
     Ok([success |-> "true", prediction |-> Prediction(81230, "Severe", 925)]),
     Ok([success |-> "true", prediction |-> Prediction(140000, "Low", 1200)]),
     Ok([success |-> "true",
         prediction |-> [risk_score |-> 61200, risk_category |-> "High",
                         confidence |-> 900]]),
     Ok([success |-> "true", prediction |-> Undefined])}

MlFailed(response) ==
    \/ response.kind # "ok"
    \/ response.data = Undefined
    \/ response.data.success # "true"

FullEnv == [openMeteo |-> [city \in CityIds |-> OpenMeteoResponses],
            openWeatherMap |-> OpenWeatherMapResponses,
            ml |-> MlResponses,
            random |-> {0, 2, 3},
            mongo |-> {"connected", "failed"}]

ApiKeys == {NoString, "owm-key"}

(***************************************************************************)
(* server.js before start(): nothing listens, no socket exists.            *)
(***************************************************************************)
MaxSockets == 2

SocketIds == 1..MaxSockets

ServerDown ==
    /\ listening = FALSE
    /\ started = 0
    /\ cycles = <<>>
    /\ now = 0
    /\ resolved = <<>>
    /\ lastBroadcastData = Null
    /\ sockets = [s \in SocketIds |-> [status |-> "unborn", greeted |-> FALSE,
                                       update |-> Null, points |-> <<>>]]
    /\ requests = <<>>

(***************************************************************************)
(* The scorer and the scoring gateway on their own.                        *)
(***************************************************************************)
MaxCalls == 2

\* temperature, humidity and wind speed in hundredths
ScoreInputs ==
    {<<50, 3050, 0>>, <<50, 3100, 500>>, <<180, 9300, 0>>, <<0, 7500, 0>>,
     <<3750, 10000, 0>>, <<3770, 10000, 200>>, <<4200, 2000, 500>>,
     <<5500, 10000, 0>>, <<2500, 0, 3000>>, <<3120, 6460, 1230>>,
     <<-1500, 8000, 4000>>, <<NaN, 5500, 1200>>}

Idle == [pc |-> "idle"]

\* no request to the REST routes is in progress
RoutesIdle == hourly = Idle /\ risk = Idle /\ forecast = Idle

\* no browser has loaded the dashboard
NoClient == page = Idle /\ chart = Idle /\ client = Idle

\* risk.js found no RiskRecord model and start() is awaiting connectDB
NoStore == store = [RiskRecord |-> Null, connection |-> "connecting",
                    records |-> <<>>]

ScoreInit ==
    /\ env = FullEnv
    /\ apiKey \in ApiKeys
    /\ budget = [cycles |-> 0, requests |-> 0]
    /\ \E in \in ScoreInputs :
           scorer = [temperature |-> in[1], humidity |-> in[2],
                     wind_speed |-> in[3], pc |-> "input",
                     score |-> NaN, category |-> NoString]
    /\ predict = Idle
    /\ predicted = <<>>
    /\ live = Idle
    /\ ServerDown
    /\ RoutesIdle
    /\ NoStore
    /\ NoClient

\* RiskScorer.score: computeRiskScoreFallback, then classifyRisk
RiskScorerScore ==
    /\ scorer.pc = "input"
    /\ LET score == computeRiskScoreFallback(scorer.temperature,
                                             scorer.humidity, scorer.wind_speed)
       IN  scorer' = [scorer EXCEPT !.pc = "scored", !.score = score,
                                    !.category = classifyRisk(score)]
    /\ UNCHANGED <<env, apiKey, budget, clientVars, store, routeVars, predict, predicted, live, serverVars>>

\* a caller invokes predictRisk on the scorer's input
PredictRiskRequest ==
    /\ predict = Idle
    /\ Len(predicted) < MaxCalls
    /\ predict' = predictRiskCall(scorer.temperature, scorer.humidity,
                                  scorer.wind_speed)
    /\ UNCHANGED <<env, apiKey, budget, clientVars, store, routeVars, scorer, predicted, live, serverVars>>

\* the ML request settles
PredictRiskSettle ==
    /\ predict # Idle
    /\ \E response \in env.ml :
           predicted' = Append(predicted,
                               [response |-> response,
                                call |-> OnMl(predict, response)])
    /\ predict' = Idle
    /\ UNCHANGED <<env, apiKey, budget, clientVars, store, routeVars, scorer, live, serverVars>>

ScoreNext == RiskScorerScore \/ PredictRiskRequest \/ PredictRiskSettle

SpecScore == ScoreInit /\ [][ScoreNext]_vars

(***************************************************************************)
(* The resolver on its own: one getLiveWeather call.                       *)
(***************************************************************************)
ResolveCities == {"Delhi", "Chandigarh", "Atlantis", "constructor"}

ResolveInit ==
    /\ env = FullEnv
    /\ apiKey \in ApiKeys
    /\ budget = [cycles |-> 0, requests |-> 0]
    /\ scorer = Idle
    /\ predict = Idle
    /\ predicted = <<>>
    /\ live = Idle
    /\ ServerDown
    /\ RoutesIdle
    /\ NoStore
    /\ NoClient

Resolve ==
    /\ live = Idle
    /\ \E city \in ResolveCities : live' \in getLiveWeatherCall(city)
    /\ UNCHANGED <<env, apiKey, budget, clientVars, store, routeVars, scoreVars, serverVars>>

OpenMeteoSettles ==
    /\ live.pc = "open-meteo"
    /\ \E response \in ResponsesFor(live.city, env.openMeteo[live.city]) :
           live' \in OnOpenMeteo(live, response)
    /\ UNCHANGED <<env, apiKey, budget, clientVars, store, routeVars, scoreVars, serverVars>>

OpenWeatherMapSettles ==
    /\ live.pc = "openweathermap"
    /\ \E response \in ResponsesFor(live.city, env.openWeatherMap) :
           live' \in OnOpenWeatherMap(live, response)
    /\ UNCHANGED <<env, apiKey, budget, clientVars, store, routeVars, scoreVars, serverVars>>

ResolveNext == Resolve \/ OpenMeteoSettles \/ OpenWeatherMapSettles

SpecResolver == ResolveInit /\ [][ResolveNext]_vars

(***************************************************************************)
(* server.js: what broadcastWeatherUpdate does per city (lines 103-114)    *)
(* and what the request:city handler does (lines 149-164) is the same      *)
(* chain: await getLiveWeather(city), then await predictRisk(...), inside  *)
(* a try.  stage is where the chain stands.                                *)
(***************************************************************************)
Chain(city, stage) ==
    [city |-> city, stage |-> stage, live |-> Idle, weather |-> Null,
     risk |-> Idle, prediction |-> Null]

\* the chain once getLiveWeather has moved to call
AfterWeather(city, call) ==
    IF call.pc = "returned"
    THEN [Chain(city, "risk") EXCEPT
              !.weather = call.weather,
              !.risk = predictRiskCall(call.weather.temperature,
                                       call.weather.humidity,
                                       call.weather.wind_speed)]
    ELSE IF call.pc = "rejected" THEN Chain(city, "failed")
    ELSE [Chain(city, "weather") EXCEPT !.live = call]

ChainStart(city) == {AfterWeather(city, c) : c \in getLiveWeatherCall(city)}

ChainOnOpenMeteo(chain, response) ==
    {AfterWeather(chain.city, c) : c \in OnOpenMeteo(chain.live, response)}

ChainOnOpenWeatherMap(chain, response) ==
    {AfterWeather(chain.city, c) : c \in OnOpenWeatherMap(chain.live, response)}

ChainOnMl(chain, response) ==
    The({IF call.pc = "returned"
         THEN [Chain(chain.city, "ok") EXCEPT !.weather = chain.weather,
                                               !.prediction = call.prediction]
         ELSE Chain(chain.city, "failed") :
         call \in {OnMl(chain.risk, response)}})

Settled(chain) == chain.stage \in {"ok", "failed"}

(***************************************************************************)
(* server.js: the broadcast engine.                                        *)
(***************************************************************************)
MaxCycles == 2
NumCities == 2
MaxRequests == 1

\* getSupportedCities(), cut to its first NumCities names
getSupportedCities == SubSeq(CITY_COORDS, 1, NumCities)

CitySet == {getSupportedCities[i] : i \in 1..NumCities}

\* lines 110 and 113: what a city's promise resolves to
TaskResult(chain) ==
    IF chain.stage = "ok"
    THEN [city |-> chain.city, weather |-> chain.weather,
          prediction |-> chain.prediction]
    ELSE Null

\* going on as soon as one promise has settled
AllSettled_Any(tasks) == \E city \in CitySet : Settled(tasks[city])

\* Promise.all has resolved: every city's promise has
AllSettled(tasks) == \A city \in CitySet : Settled(tasks[city])

\* the results in the reverse of the order of cities
Resolved_Reversed(tasks) ==
    [i \in 1..NumCities |->
        TaskResult(tasks[getSupportedCities[NumCities + 1 - i]])]

\* line 117: Promise.all keeps the order of cities
Resolved(tasks) ==
    [i \in 1..NumCities |-> TaskResult(tasks[getSupportedCities[i]])]

\* lines 117-126 on the array Promise.all resolved to: the entries that are
\* not null, the time, and the tag of the first entry's weather
PayloadOf(array, time, cycle) ==
    LET results == SelectSeq(array, Truthy)
    IN  [data |-> results,
         timestamp |-> time,
         source |-> IF results # <<>> THEN results[1].weather.source
                    ELSE "open-meteo",
         cycle |-> cycle]

\* the payload with the first result left out
Payload_DropsFirst(cycle, tasks, time) ==
    LET results == Tail(SelectSeq(Resolved(tasks), Truthy))
    IN  [data |-> results,
         timestamp |-> time,
         source |-> IF results # <<>> THEN results[1].weather.source
                    ELSE "open-meteo",
         cycle |-> cycle]

\* lines 118-126; cycle is not part of the payload, it records which call of
\* broadcastWeatherUpdate built it
Payload(cycle, tasks, time) == PayloadOf(Resolved(tasks), time, cycle)

\* an emit that reaches a socket whatever its connection state
Deliver_Always(socket, message) ==
    IF message.event = "weather:update"
    THEN [socket EXCEPT !.update = message.payload]
    ELSE [socket EXCEPT !.points = Append(@, message)]

\* socket.emit and io.emit reach a socket only while it is connected;
\* update is the latest weather:update it was sent, points the city:update
\* and city:error events, oldest first
Deliver(socket, message) ==
    IF socket.status # "connected" THEN socket
    ELSE IF message.event = "weather:update"
    THEN [socket EXCEPT !.update = message.payload]
    ELSE [socket EXCEPT !.points = Append(@, message)]

\* the publication without line 128
Collect_NoRetain(cycle, tasks) ==
    IF AllSettled(tasks)
    THEN LET payload == Payload(cycle, tasks, now + 1)
         IN  /\ now' = now + 1
             /\ resolved' = Resolved(tasks)
             /\ UNCHANGED lastBroadcastData
             /\ sockets' = [s \in SocketIds |->
                               Deliver(sockets[s], [event |-> "weather:update",
                                                    payload |-> payload])]
             /\ cycles' = [c \in DOMAIN cycles \ {cycle} |-> cycles[c]]
    ELSE /\ cycles' = [c \in DOMAIN cycles \cup {cycle} |->
                          IF c = cycle THEN tasks ELSE cycles[c]]
         /\ UNCHANGED <<now, resolved, lastBroadcastData, sockets>>

\* lines 117-131, run in one turn when the last promise of the cycle settles;
\* until then the cycle only records the tasks
Collect(cycle, tasks) ==
    IF AllSettled(tasks)
    THEN LET payload == Payload(cycle, tasks, now + 1)
         IN  /\ now' = now + 1
             /\ resolved' = Resolved(tasks)
             /\ lastBroadcastData' = payload
             /\ sockets' = [s \in SocketIds |->
                               Deliver(sockets[s], [event |-> "weather:update",
                                                    payload |-> payload])]
             /\ cycles' = [c \in DOMAIN cycles \ {cycle} |-> cycles[c]]
    ELSE /\ cycles' = [c \in DOMAIN cycles \cup {cycle} |->
                          IF c = cycle THEN tasks ELSE cycles[c]]
         /\ UNCHANGED <<now, resolved, lastBroadcastData, sockets>>

\* lines 96-115: a new call of broadcastWeatherUpdate up to Promise.all
broadcastWeatherUpdate(cycle) ==
    \E tasks \in [CitySet -> UNION {ChainStart(city) : city \in CitySet}] :
        /\ \A city \in CitySet : tasks[city] \in ChainStart(city)
        /\ Collect(cycle, tasks)

\* connectDB settles (db.js:7-18): with the connection, or with null once
\* the attempt has failed; start() goes on either way
ConnectDBSettles ==
    /\ store.connection = "connecting"
    /\ \E outcome \in env.mongo : store' = [store EXCEPT !.connection = outcome]
    /\ UNCHANGED <<env, apiKey, budget, clientVars, routeVars, scoreVars, live, serverVars>>

\* the server.listen callback: the immediate broadcast, then setInterval
Listen ==
    /\ store.connection # "connecting"
    /\ ~listening
    /\ listening' = TRUE
    /\ started' = 1
    /\ broadcastWeatherUpdate(1)
    /\ UNCHANGED <<env, apiKey, budget, clientVars, store, routeVars, scoreVars, live, requests>>

\* the interval timer fires
Tick ==
    /\ listening
    /\ started < budget.cycles
    /\ started' = started + 1
    /\ broadcastWeatherUpdate(started + 1)
    /\ UNCHANGED <<env, apiKey, budget, clientVars, store, routeVars, scoreVars, live, listening, requests>>

TaskOpenMeteoSettles ==
    \E cycle \in DOMAIN cycles, city \in CitySet :
        /\ cycles[cycle][city].stage = "weather"
        /\ cycles[cycle][city].live.pc = "open-meteo"
        /\ \E response \in ResponsesFor(city, env.openMeteo[city]) :
               \E chain \in ChainOnOpenMeteo(cycles[cycle][city], response) :
                   Collect(cycle, [cycles[cycle] EXCEPT ![city] = chain])
        /\ UNCHANGED <<env, apiKey, budget, clientVars, store, routeVars, scoreVars, live, listening, started,
                       requests>>

TaskOpenWeatherMapSettles ==
    \E cycle \in DOMAIN cycles, city \in CitySet :
        /\ cycles[cycle][city].stage = "weather"
        /\ cycles[cycle][city].live.pc = "openweathermap"
        /\ \E response \in ResponsesFor(city, env.openWeatherMap) :
               \E chain \in ChainOnOpenWeatherMap(cycles[cycle][city], response) :
                   Collect(cycle, [cycles[cycle] EXCEPT ![city] = chain])
        /\ UNCHANGED <<env, apiKey, budget, clientVars, store, routeVars, scoreVars, live, listening, started,
                       requests>>

TaskMlSettles ==
    \E cycle \in DOMAIN cycles, city \in CitySet :
        /\ cycles[cycle][city].stage = "risk"
        /\ \E response \in env.ml :
               \E chain \in {ChainOnMl(cycles[cycle][city], response)} :
                   Collect(cycle, [cycles[cycle] EXCEPT ![city] = chain])
        /\ UNCHANGED <<env, apiKey, budget, clientVars, store, routeVars, scoreVars, live, listening, started,
                       requests>>

(***************************************************************************)
(* server.js: the connection handler.                                      *)
(***************************************************************************)
\* the connection handler without the replay of the last broadcast
OnConnection_NoReplay(socket, last) == [socket EXCEPT !.status = "connected"]

\* the handler without the test of line 143: it emits whatever is retained
OnConnection_NoTest(socket, last) ==
    Deliver([socket EXCEPT !.status = "connected", !.greeted = TRUE],
            [event |-> "weather:update", payload |-> last])

\* lines 139-145; greeted records that line 144 ran
OnConnection(socket, last) ==
    IF Truthy(last)
    THEN Deliver([socket EXCEPT !.status = "connected", !.greeted = TRUE],
                 [event |-> "weather:update", payload |-> last])
    ELSE [socket EXCEPT !.status = "connected"]

Connect ==
    \E s \in SocketIds :
        /\ listening
        /\ sockets[s].status = "unborn"
        /\ sockets' = [sockets EXCEPT ![s] = OnConnection(@, lastBroadcastData)]
        /\ UNCHANGED <<env, apiKey, budget, clientVars, store, routeVars, scoreVars, live, listening, started,
                       cycles, now, resolved, lastBroadcastData, requests>>

\* lines 167-169
Disconnect ==
    \E s \in SocketIds :
        /\ sockets[s].status = "connected"
        /\ sockets' = [sockets EXCEPT ![s].status = "disconnected"]
        /\ UNCHANGED <<env, apiKey, budget, clientVars, store, routeVars, scoreVars, live, listening, started,
                       cycles, now, resolved, lastBroadcastData, requests>>

\* what a client may send as the city
RequestCities == {"Delhi", "Atlantis"}

\* lines 148-150: request:city arrives on a connected socket
RequestCity ==
    \E s \in SocketIds, city \in RequestCities :
        /\ sockets[s].status = "connected"
        /\ Len(requests) < budget.requests
        /\ \E chain \in ChainStart(city) :
               requests' = Append(requests,
                                  [socket |-> s, city |-> city, chain |-> chain,
                                   emitted |-> <<>>])
        /\ UNCHANGED <<env, apiKey, budget, clientVars, store, routeVars, scoreVars, live, listening, started,
                       cycles, now, resolved, lastBroadcastData, sockets>>

\* lines 156-164: the event the handler emits once its chain has settled
CityEvent(r, chain) ==
    IF chain.stage = "ok"
    THEN [event |-> "city:update", city |-> requests[r].city,
          weather |-> chain.weather, prediction |-> chain.prediction,
          timestamp |-> now, request |-> r]
    ELSE [event |-> "city:error", city |-> requests[r].city,
          weather |-> Null, prediction |-> Null,
          timestamp |-> now, request |-> r]

\* the handler answering with io.emit instead of socket.emit
Resume_ToAll(r, chain) ==
    IF Settled(chain)
    THEN /\ requests' = [requests EXCEPT
                ![r].chain = chain,
                ![r].emitted = Append(@, [event |-> CityEvent(r, chain).event,
                                          to |-> requests[r].socket,
                                          city |-> CityEvent(r, chain).city])]
         /\ sockets' = [s \in SocketIds |->
                           Deliver(sockets[s], CityEvent(r, chain))]
         /\ UNCHANGED lastBroadcastData
    ELSE /\ requests' = [requests EXCEPT ![r].chain = chain]
         /\ UNCHANGED <<sockets, lastBroadcastData>>

\* the handler keeping its answer as the snapshot for late joiners
Resume_Retains(r, chain) ==
    IF Settled(chain)
    THEN /\ requests' = [requests EXCEPT
                ![r].chain = chain,
                ![r].emitted = Append(@, [event |-> CityEvent(r, chain).event,
                                          to |-> requests[r].socket,
                                          city |-> CityEvent(r, chain).city])]
         /\ sockets' = [sockets EXCEPT ![requests[r].socket] =
                Deliver(@, CityEvent(r, chain))]
         /\ lastBroadcastData' =
                [data |-> IF chain.stage = "ok" THEN <<TaskResult(chain)>>
                          ELSE <<>>,
                 timestamp |-> now,
                 source |-> "open-meteo",
                 cycle |-> started]
    ELSE /\ requests' = [requests EXCEPT ![r].chain = chain]
         /\ UNCHANGED <<sockets, lastBroadcastData>>

\* lines 148-165: the handler of request r resumes with its chain at chain;
\* it has no statement on lastBroadcastData
Resume(r, chain) ==
    IF Settled(chain)
    THEN /\ requests' = [requests EXCEPT
                ![r].chain = chain,
                ![r].emitted = Append(@, [event |-> CityEvent(r, chain).event,
                                          to |-> requests[r].socket,
                                          city |-> CityEvent(r, chain).city])]
         /\ sockets' = [sockets EXCEPT ![requests[r].socket] =
                Deliver(@, CityEvent(r, chain))]
         /\ UNCHANGED lastBroadcastData
    ELSE /\ requests' = [requests EXCEPT ![r].chain = chain]
         /\ UNCHANGED <<sockets, lastBroadcastData>>

RequestOpenMeteoSettles ==
    \E r \in DOMAIN requests :
        /\ requests[r].chain.stage = "weather"
        /\ requests[r].chain.live.pc = "open-meteo"
        /\ \E response \in ResponsesFor(requests[r].city, env.openMeteo[requests[r].city]) :
               \E chain \in ChainOnOpenMeteo(requests[r].chain, response) :
                   Resume(r, chain)
        /\ UNCHANGED <<env, apiKey, budget, clientVars, store, routeVars, scoreVars, live, listening, started,
                       cycles, now, resolved>>

RequestOpenWeatherMapSettles ==
    \E r \in DOMAIN requests :
        /\ requests[r].chain.stage = "weather"
        /\ requests[r].chain.live.pc = "openweathermap"
        /\ \E response \in ResponsesFor(requests[r].city, env.openWeatherMap) :
               \E chain \in ChainOnOpenWeatherMap(requests[r].chain, response) :
                   Resume(r, chain)
        /\ UNCHANGED <<env, apiKey, budget, clientVars, store, routeVars, scoreVars, live, listening, started,
                       cycles, now, resolved>>

RequestMlSettles ==
    \E r \in DOMAIN requests :
        /\ requests[r].chain.stage = "risk"
        /\ \E response \in env.ml :
               \E chain \in {ChainOnMl(requests[r].chain, response)} :
                   Resume(r, chain)
        /\ UNCHANGED <<env, apiKey, budget, clientVars, store, routeVars, scoreVars, live, listening, started,
                       cycles, now, resolved>>

\* The server is explored in worlds where each service answers one way for
\* the whole run: Open-Meteo is up or down per city, OpenWeatherMap and the
\* ML service are up or down, Math.random() returns 0.5, MongoDB cannot be
\* reached.
World(openMeteoDown, openWeatherMapUp, mlUp) ==
    [openMeteo |-> [city \in CityIds |->
                       IF city \in openMeteoDown THEN {Timeout}
                       ELSE {Ok([current |-> Current(4204, 1996, 500)])}],
     openWeatherMap |-> IF openWeatherMapUp
                        THEN {Ok(Owm(3847, 2300, 411, <<"clear sky">>))}
                        ELSE {NetworkError},
     ml |-> IF mlUp
            THEN {Ok([success |-> "true",
                      prediction |-> Prediction(81230, "Severe", 925)])}
            ELSE {Timeout},
     random |-> {2},
     mongo |-> {"failed"}]

\* everything up, MongoDB too; Open-Meteo down for Delhi with and without a backup; and
\* every service down
Worlds ==
    {[env |-> [World({}, TRUE, TRUE) EXCEPT !.mongo = {"connected"}],
      apiKey |-> NoString],
     [env |-> World({"Delhi"}, TRUE, TRUE), apiKey |-> "owm-key"],
     [env |-> World({"Delhi"}, TRUE, FALSE), apiKey |-> NoString],
     [env |-> World(CityIds, FALSE, FALSE), apiKey |-> "owm-key"]}

\* a run follows either MaxCycles cycles, or one cycle and MaxRequests
\* request:city events
Budgets == {[cycles |-> MaxCycles, requests |-> 0],
            [cycles |-> 1, requests |-> MaxRequests]}

Init ==
    /\ \E world \in Worlds : env = world.env /\ apiKey = world.apiKey
    /\ budget \in Budgets
    /\ scorer = Idle
    /\ predict = Idle
    /\ predicted = <<>>
    /\ live = Idle
    /\ ServerDown
    /\ RoutesIdle
    /\ NoStore
    /\ NoClient

Next ==
    \/ ConnectDBSettles
    \/ Listen
    \/ Tick
    \/ TaskOpenMeteoSettles
    \/ TaskOpenWeatherMapSettles
    \/ TaskMlSettles
    \/ Connect
    \/ Disconnect
    \/ RequestCity
    \/ RequestOpenMeteoSettles
    \/ RequestOpenWeatherMapSettles
    \/ RequestMlSettles

Spec == Init /\ [][Next]_vars

\* The timer keeps firing while the process lives, the listen callback runs,
\* and every outbound request is answered or times out (axios timeouts of
\* 8000 and 5000 ms).
BroadcastStep ==
    \/ ConnectDBSettles
    \/ Listen
    \/ Tick
    \/ TaskOpenMeteoSettles
    \/ TaskOpenWeatherMapSettles
    \/ TaskMlSettles

FairSpec == Spec /\ WF_vars(BroadcastStep)

(***************************************************************************)
(* The payload of one cycle as a function of what its cities resolved to:  *)
(* the source of each city's weather is drawn freely, since every city     *)
(* goes through the provider tiers on its own.                             *)
(***************************************************************************)
MaxResults == 4

\* what getLiveWeather returns for city from the tier that answered
WeatherFrom(city) ==
    {OpenMeteoTry(city, Ok([current |-> Current(4204, 1996, 500)])).value,
     OpenWeatherMapTry(city, Ok(Owm(3847, 2300, 411, <<"clear sky">>))).value,
     getMockWeather(city, 2, 2, 2)}

\* the arrays Promise.all can resolve to for the first n cities
ResolvedArrays(n) ==
    {[i \in 1..n |-> [city |-> CITY_COORDS[i], weather |-> weathers[i],
                      prediction |-> Prediction(81230, "Severe", 925)]] :
        weathers \in {w \in [1..n -> UNION {WeatherFrom(CITY_COORDS[i]) :
                                                i \in 1..n}] :
                          \A i \in 1..n : w[i].city = CITY_COORDS[i]}}

PayloadInit ==
    /\ env = World({}, TRUE, TRUE)
    /\ apiKey = NoString
    /\ budget = [cycles |-> 1, requests |-> 0]
    /\ scorer = Idle
    /\ predict = Idle
    /\ predicted = <<>>
    /\ live = Idle
    /\ listening = FALSE
    /\ started = 1
    /\ cycles = <<>>
    /\ now = 0
    /\ \E n \in 1..MaxResults : resolved \in ResolvedArrays(n)
    /\ lastBroadcastData = Null
    /\ sockets = [s \in SocketIds |-> [status |-> "unborn", greeted |-> FALSE,
                                        update |-> Null, points |-> <<>>]]
    /\ requests = <<>>
    /\ RoutesIdle
    /\ NoStore
    /\ NoClient

\* lines 117-128 of the one cycle
Publish ==
    /\ lastBroadcastData = Null
    /\ lastBroadcastData' = PayloadOf(resolved, now + 1, started)
    /\ now' = now + 1
    /\ UNCHANGED <<env, apiKey, budget, clientVars, store, routeVars, scoreVars, live, listening, started,
                   cycles, resolved, sockets, requests>>

PayloadNext == Publish

SpecPayload == PayloadInit /\ [][PayloadNext]_vars

(***************************************************************************)
(* GET /api/forecast/hourly: getHourlyHeatData and generateMockHourlyData. *)
(* Temperatures, wind and deltas in hundredths, humidity in percent.       *)
(***************************************************************************)
HoursPerDay == 24

\* Math.round(x) on hundredths, giving units: half up, NaN for a missing one
RoundUnit(v100) ==
    IF IsNum(v100) THEN (v100 + 50) \div 100 ELSE NaN

\* a - b, NaN when either is
Minus(a, b) == IF IsNum(a) /\ IsNum(b) THEN a - b ELSE NaN

\* array[i]: undefined past the end
At(array, i) == IF i \in DOMAIN array THEN array[i] ELSE NaN

\* the tags with both boundaries inclusive
Trend_Inclusive(change) ==
    IF IsNum(change) /\ change >= 30 THEN "rising"
    ELSE IF IsNum(change) /\ change <= -30 THEN "falling"
    ELSE "stable"

\* lines 407 and 459; a comparison with NaN is false
Trend(change) ==
    IF IsNum(change) /\ change > 30 THEN "rising"
    ELSE IF IsNum(change) /\ change < -30 THEN "falling"
    ELSE "stable"

\* "2026-02-28T05:00" as the code reads it: the text after the T
TimeText(hour) == [date |-> "2026-02-28", hour |-> hour, minute |-> 0]

\* the callback of hourly.time.map for index i (1-based), lines 394-410
HourlyPoint(hourlyBlock, i) ==
    LET temp == RoundTenth(At(hourlyBlock.temperature_2m, i))
        prevTemp == IF i > 1 THEN At(hourlyBlock.temperature_2m, i - 1)
                    ELSE temp
        change == RoundTenth(Minus(temp, prevTemp))
    IN  [time        |-> [hour |-> hourlyBlock.time[i].hour,
                          minute |-> hourlyBlock.time[i].minute],
         hour        |-> hourlyBlock.time[i].hour,
         temperature |-> temp,
         humidity    |-> RoundUnit(At(hourlyBlock.relative_humidity_2m, i)),
         wind_speed  |-> RoundTenth(At(hourlyBlock.wind_speed_10m, i)),
         feels_like  |-> RoundTenth(At(hourlyBlock.apparent_temperature, i)),
         change      |-> change,
         trend       |-> Trend(change),
         source      |-> "open-meteo"]

\* the try block of getHourlyHeatData on the outcome of axios.get: reading a
\* property of undefined throws, reading past the end of an array does not
HourlyTry(response) ==
    IF response.kind # "ok" THEN Thrown
    ELSE IF response.data = Undefined THEN Thrown
    ELSE IF response.data.hourly = Undefined THEN Thrown
    ELSE LET hourlyBlock == response.data.hourly
         IN  IF hourlyBlock.time = Undefined THEN Thrown
             ELSE IF hourlyBlock.time # <<>>
                     /\ \/ hourlyBlock.temperature_2m = Undefined
                        \/ hourlyBlock.relative_humidity_2m = Undefined
                        \/ hourlyBlock.wind_speed_10m = Undefined
                        \/ hourlyBlock.apparent_temperature = Undefined
                        \/ \E i \in DOMAIN hourlyBlock.time :
                               hourlyBlock.time[i] = Undefined
             THEN Thrown
             ELSE Value([i \in DOMAIN hourlyBlock.time |->
                            HourlyPoint(hourlyBlock, i)])

\* Math.sin(((h - 6) / 18) * Math.PI) clamped at 0, in ten-thousandths
SinScale == 10000
ClampedProgress(h) ==
    LET sines == <<0, 1736, 3420, 5000, 6428, 7660, 8660, 9397, 9848, 10000,
                   9848, 9397, 8660, 7660, 6428, 5000, 3420, 1736>>
    IN  IF h < 6 THEN 0 ELSE sines[h - 5]

\* Math.random() as a stream: draw n of stream <<seed, step>> is
\* ((seed + n * step) % RandomDen) / RandomDen
Draw(stream, n) == (stream[1] + n * stream[2]) % RandomDen
RandomStreams == (0..RandomDen - 1) \X {0, 1, 3}

\* x rounded to tenths, for x in ten-thousandths of a unit, in hundredths
RoundTenthOfScaled(x) == ((x + SinScale \div 20) \div (SinScale \div 10)) * 10

\* the temperature of hour h in generateMockHourlyData (lines 434-443), for
\* a city whose base is a number; in hundredths
MockHourTemp(city, stream, h) ==
    LET base == IF city \in OwnKeys THEN baseTemps[city] ELSE 30
        \* peakTemp and minTemp in ten-thousandths
        peakTemp == base * SinScale
                        + (4 * SinScale * Draw(stream, 0)) \div RandomDen
                        - 2 * SinScale
        minTemp == peakTemp - 6 * SinScale
                       - (3 * SinScale * Draw(stream, 1)) \div RandomDen
        noise == (SinScale * Draw(stream, 2 + 3 * h)) \div RandomDen
                     - SinScale \div 2
        temp == minTemp + ((((peakTemp - minTemp) \div 100) * ClampedProgress(h))
                              \div (SinScale \div 100))
                        + noise
    IN  RoundTenthOfScaled(temp)

\* humidity of hour h (line 445), in percent
MockHourHumidity(city, stream, h) ==
    LET baseHum == IF city \in OwnKeys THEN baseHumidity[city] ELSE 50
        \* in ten-thousandths of a percent
        hum == baseHum * SinScale + (SinScale - ClampedProgress(h)) * 15
                   + (6 * SinScale * Draw(stream, 3 + 3 * h)) \div RandomDen
                   - 3 * SinScale
    IN  (Min(95 * SinScale, Max(15 * SinScale, hum)) + SinScale \div 2)
            \div SinScale

\* the point pushed for hour h by the loop of generateMockHourlyData (lines
\* 439-462); the last point pushed before it is the one of hour h - 1.  For
\* a name inherited from Object.prototype the table lookups are functions
\* and every sum is NaN.
MockHourlyPoint(city, stream, h) ==
    LET Rounded(hr) == IF city \in InheritedKeys THEN NaN
                       ELSE MockHourTemp(city, stream, hr)
        roundedTemp == Rounded(h)
        hum == IF city \in InheritedKeys THEN NaN
               ELSE MockHourHumidity(city, stream, h)
        wind == RoundTenthOver(1200 * Draw(stream, 4 + 3 * h)
                                   + 200 * RandomDen)
        prevTemp == IF h > 0 THEN Rounded(h - 1) ELSE roundedTemp
        change == RoundTenth(Minus(roundedTemp, prevTemp))
    IN  [time        |-> [hour |-> h, minute |-> 0],
         hour        |-> h,
         temperature |-> roundedTemp,
         humidity    |-> hum,
         wind_speed  |-> wind,
         feels_like  |-> IF IsNum(roundedTemp)
                         THEN RoundTenth(roundedTemp + hum * 8)
                         ELSE NaN,
         change      |-> change,
         trend       |-> Trend(change),
         source      |-> "mock"]

generateMockHourlyData(city, stream) ==
    [i \in 1..HoursPerDay |-> MockHourlyPoint(city, stream, i - 1)]

\* the provider's hourly block for n hours numbered from 0, the temperature
\* of hour h being temps[h + 1] where temps reaches that far
HourlyBlock(n, temps) ==
    [time                 |-> [i \in 1..n |-> TimeText((i - 1) % HoursPerDay)],
     temperature_2m       |-> temps,
     relative_humidity_2m |-> [i \in 1..n |-> 4120 + 10 * i],
     wind_speed_10m       |-> [i \in 1..n |-> 730 + i],
     apparent_temperature |-> [i \in 1..n |-> 2911 + 20 * i]]

DayTemps ==
    <<2600, 2600, 2630, 2661, 2621, 2591, 2591, 2631, 2700, 2790, 2900, 3010,
      3120, 3200, 3250, 3280, 3250, 3220, 3150, 3050, 2950, 2850, 2780, 2700>>

\* what Open-Meteo may answer to the hourly request: failures, bodies that
\* lack the block or one of its arrays, and blocks of a whole day, of a day
\* short of an hour, of no hour, of two days, and of a day whose
\* temperatures stop at noon
HourlyResponses ==
    {Timeout, NetworkError, HttpError,
     Ok(Undefined),
     Ok([hourly |-> Undefined]),
     Ok([hourly |-> [HourlyBlock(HoursPerDay, DayTemps)
                         EXCEPT !.temperature_2m = Undefined]]),
     Ok([hourly |-> [HourlyBlock(HoursPerDay, DayTemps)
                         EXCEPT !.time[3] = Undefined]]),
     Ok([hourly |-> HourlyBlock(HoursPerDay, DayTemps)]),
     Ok([hourly |-> HourlyBlock(HoursPerDay - 1,
                                SubSeq(DayTemps, 1, HoursPerDay - 1))]),
     Ok([hourly |-> HourlyBlock(0, <<>>)]),
     Ok([hourly |-> HourlyBlock(2 * HoursPerDay, DayTemps \o DayTemps)]),
     Ok([hourly |-> HourlyBlock(HoursPerDay, SubSeq(DayTemps, 1, 12))])}

Infinity == 1999999999
IsFinite(v) == IsNum(v) /\ v # Infinity /\ v # -Infinity

\* Math.max(...temps) and Math.min(...temps): NaN if one is, and minus or
\* plus Infinity for none
MathMax(temps) ==
    LET values == {temps[i] : i \in DOMAIN temps}
    IN  IF values = {} THEN -Infinity
        ELSE IF NaN \in values THEN NaN
        ELSE CHOOSE v \in values : \A w \in values : w <= v

MathMin(temps) ==
    LET values == {temps[i] : i \in DOMAIN temps}
    IN  IF values = {} THEN Infinity
        ELSE IF NaN \in values THEN NaN
        ELSE CHOOSE v \in values : \A w \in values : v <= w

\* lines 56-81 of the route on what getHourlyHeatData returned
HourlyResponse(call, hourlyData) ==
    LET temps == [i \in DOMAIN hourlyData |-> hourlyData[i].temperature]
        peakTemp == MathMax(temps)
        minTemp == MathMin(temps)
        found == {i \in DOMAIN hourlyData :
                     IsNum(peakTemp) /\ hourlyData[i].temperature = peakTemp}
        Count(tag) == Cardinality({i \in DOMAIN hourlyData :
                                      hourlyData[i].trend = tag})
    IN  [call EXCEPT
            !.pc = "responded",
            !.status = 200,
            !.hourly = hourlyData,
            !.summary =
                [peak_temp |-> peakTemp,
                 min_temp  |-> minTemp,
                 peak_hour |-> IF found # {}
                               THEN hourlyData[CHOOSE i \in found :
                                       \A j \in found : i <= j].time
                               ELSE [hour |-> 14, minute |-> 0],
                 total_rise_hours |-> Count("rising"),
                 total_fall_hours |-> Count("falling"),
                 range |-> IF ~IsNum(peakTemp) THEN NaN
                           ELSE IF ~IsFinite(peakTemp) THEN -Infinity
                           ELSE RoundTenth(peakTemp - minTemp)],
            !.source = IF hourlyData # <<>> THEN hourlyData[1].source
                       ELSE "mock"]

\* getHourlyHeatData after the request has settled, with its catch
getHourlyHeatData(call, response) ==
    LET r == HourlyTry(response)
    IN  IF r.thrown THEN generateMockHourlyData(call.city, call.stream)
        ELSE r.value

HourlyCities == ResolveCities \cup {"Mumbai", NoString}

\* GET /api/forecast/hourly?city=query up to the first await that leaves
\* the process (lines 51-54 and 386-391)
HourlyGet ==
    /\ hourly = Idle
    /\ \E query \in HourlyCities, stream \in RandomStreams :
           LET city == IF TruthyStr(query) THEN query ELSE "Delhi"
               call == [pc |-> "open-meteo", city |-> city, stream |-> stream,
                        status |-> 0, hourly |-> <<>>, summary |-> Null,
                        source |-> NoString]
           IN  hourly' = IF TruthyStr(Coords(city)) THEN call
                         ELSE HourlyResponse(call,
                                  generateMockHourlyData(city, stream))
    /\ UNCHANGED <<env, apiKey, budget, clientVars, store, scoreVars, live, serverVars,
                   risk, forecast>>

\* the Open-Meteo request of getHourlyHeatData settles and the route answers
HourlyOpenMeteoSettles ==
    /\ hourly.pc = "open-meteo"
    /\ \E response \in ResponsesFor(hourly.city, HourlyResponses) :
           hourly' = HourlyResponse(hourly, getHourlyHeatData(hourly, response))
    /\ UNCHANGED <<env, apiKey, budget, clientVars, store, scoreVars, live, serverVars,
                   risk, forecast>>

HourlyInit ==
    /\ env = FullEnv
    /\ apiKey = NoString
    /\ budget = [cycles |-> 0, requests |-> 0]
    /\ scorer = Idle
    /\ predict = Idle
    /\ predicted = <<>>
    /\ live = Idle
    /\ ServerDown
    /\ RoutesIdle
    /\ NoStore
    /\ NoClient

HourlyNext == HourlyGet \/ HourlyOpenMeteoSettles

SpecHourly == HourlyInit /\ [][HourlyNext]_vars

(***************************************************************************)
(* GET /api/risk/predict (risk.js:20-66) on a server that has started, and *)
(* the store it writes to when risk.js found the RiskRecord model.         *)
(***************************************************************************)
\* res.json of lines 51-59
RiskAnswer(call, chain, stored) ==
    [call EXCEPT !.pc = "responded", !.chain = chain, !.stored = stored,
                 !.status = 200,
                 !.body = [success |-> TRUE, weather |-> chain.weather,
                           prediction |-> chain.prediction,
                           city |-> call.city, timestamp |-> now]]

\* the catch of lines 60-65
RiskError(call, chain, stored) ==
    [call EXCEPT !.pc = "responded", !.chain = chain, !.stored = stored,
                 !.status = 500,
                 !.body = [success |-> FALSE, weather |-> Null,
                           prediction |-> Null, city |-> NoString,
                           timestamp |-> now]]

\* the route without the inner catch: a failed save reaches the outer one
AfterCreate_NoCatch(call, outcome) ==
    IF outcome = "saved" THEN RiskAnswer(call, call.chain, outcome)
    ELSE RiskError(call, call.chain, outcome)

\* lines 36-59 once the save has settled or thrown: the inner catch only
\* logs, and the route answers
AfterCreate(call, outcome) == RiskAnswer(call, call.chain, outcome)

\* the route after an await of getLiveWeather or predictRisk, the chain of
\* the two calls having moved to chain
RiskResume(call, chain) ==
    IF chain.stage = "failed" THEN RiskError(call, chain, "none")
    ELSE IF chain.stage # "ok" THEN [call EXCEPT !.chain = chain]
    ELSE IF store.RiskRecord = Null THEN RiskAnswer(call, chain, "none")
    \* prediction.risk_score of no prediction throws inside the inner try
    ELSE IF chain.prediction = Undefined
         THEN AfterCreate([call EXCEPT !.chain = chain], "threw")
    ELSE [call EXCEPT !.pc = "store", !.chain = chain]

RiskCities == {"Delhi", "Mumbai", NoString}

RiskGet ==
    /\ listening
    /\ risk = Idle
    /\ \E query \in RiskCities :
           LET city == IF TruthyStr(query) THEN query ELSE "Delhi"
               call == [pc |-> "chain", city |-> city, chain |-> Null,
                        stored |-> "none", status |-> 0, body |-> Null]
           IN  \E chain \in ChainStart(city) : risk' = RiskResume(call, chain)
    /\ UNCHANGED <<env, apiKey, budget, clientVars, store, scoreVars, live, serverVars,
                   hourly, forecast>>

RiskOpenMeteoSettles ==
    /\ risk.pc = "chain"
    /\ risk.chain.stage = "weather"
    /\ risk.chain.live.pc = "open-meteo"
    /\ \E response \in ResponsesFor(risk.city, env.openMeteo[risk.city]) :
           \E chain \in ChainOnOpenMeteo(risk.chain, response) :
               risk' = RiskResume(risk, chain)
    /\ UNCHANGED <<env, apiKey, budget, clientVars, store, scoreVars, live, serverVars,
                   hourly, forecast>>

RiskOpenWeatherMapSettles ==
    /\ risk.pc = "chain"
    /\ risk.chain.stage = "weather"
    /\ risk.chain.live.pc = "openweathermap"
    /\ \E response \in ResponsesFor(risk.city, env.openWeatherMap) :
           \E chain \in ChainOnOpenWeatherMap(risk.chain, response) :
               risk' = RiskResume(risk, chain)
    /\ UNCHANGED <<env, apiKey, budget, clientVars, store, scoreVars, live, serverVars,
                   hourly, forecast>>

RiskMlSettles ==
    /\ risk.pc = "chain"
    /\ risk.chain.stage = "risk"
    /\ \E response \in env.ml :
           \E chain \in {ChainOnMl(risk.chain, response)} :
               risk' = RiskResume(risk, chain)
    /\ UNCHANGED <<env, apiKey, budget, clientVars, store, scoreVars, live, serverVars,
                   hourly, forecast>>

\* RiskRecord.create settles: with the record saved if the store is
\* connected and accepts it, and rejected otherwise (a command buffered
\* for a connection that never came times out)
CreateOutcomes ==
    IF store.connection = "connected" THEN {"saved", "rejected"}
    ELSE {"rejected"}

RiskCreateSettles ==
    /\ risk.pc = "store"
    /\ \E outcome \in CreateOutcomes :
           /\ risk' = AfterCreate(risk, outcome)
           /\ store' = IF outcome = "saved"
                       THEN [store EXCEPT !.records = Append(@, risk.city)]
                       ELSE store
    /\ UNCHANGED <<env, apiKey, budget, clientVars, scoreVars, live, serverVars, hourly,
                   forecast>>

\* Open-Meteo is down for Delhi and OpenWeatherMap stands in; the ML
\* service answers with a prediction, with none, or not at all; MongoDB
\* may or may not be reached
RiskWorld ==
    [World({"Delhi"}, TRUE, TRUE) EXCEPT
        !.ml = {Ok([success |-> "true",
                    prediction |-> Prediction(81230, "Severe", 925)]),
                Ok([success |-> "true", prediction |-> Undefined]),
                Timeout},
        !.mongo = {"connected", "failed"}]

RiskInit ==
    /\ env = RiskWorld
    /\ apiKey = "owm-key"
    /\ budget = [cycles |-> 1, requests |-> 0]
    /\ scorer = Idle
    /\ predict = Idle
    /\ predicted = <<>>
    /\ live = Idle
    /\ ServerDown
    /\ RoutesIdle
    /\ NoClient
    /\ \E model \in {Null, [model |-> "RiskRecord"]} :
           store = [RiskRecord |-> model, connection |-> "connecting",
                    records |-> <<>>]

RiskNext ==
    \/ ConnectDBSettles
    \/ Listen
    \/ TaskOpenMeteoSettles
    \/ TaskOpenWeatherMapSettles
    \/ TaskMlSettles
    \/ RiskGet
    \/ RiskOpenMeteoSettles
    \/ RiskOpenWeatherMapSettles
    \/ RiskMlSettles
    \/ RiskCreateSettles

SpecRisk == RiskInit /\ [][RiskNext]_vars

\* connectDB settles, whatever the store does, and server.listen calls back
StartStep == ConnectDBSettles \/ Listen

FairSpecRisk == SpecRisk /\ WF_vars(StartStep)

(***************************************************************************)
(* GET /api/forecast/7days: getLiveForecast, generate7DayForecast and      *)
(* predictForecast.                                                        *)
(***************************************************************************)
ForecastDays == 7

\* daily.relative_humidity_2m_mean?.[index] ?? 50, in hundredths
HumidityOr50(array, i) ==
    IF array = Undefined \/ i \notin DOMAIN array THEN 5000 ELSE array[i]

\* the try block of getLiveForecast on the outcome of axios.get (lines
\* 284-303): one entry per date the provider names
OpenMeteoForecastTry(response) ==
    IF response.kind # "ok" THEN Thrown
    ELSE IF response.data = Undefined THEN Thrown
    ELSE IF response.data.daily = Undefined THEN Thrown
    ELSE LET daily == response.data.daily
         IN  IF daily.time = Undefined THEN Thrown
             ELSE IF daily.time # <<>>
                     /\ \/ daily.temperature_2m_max = Undefined
                        \/ daily.temperature_2m_min = Undefined
                        \/ daily.wind_speed_10m_max = Undefined
                        \/ daily.weather_code = Undefined
             THEN Thrown
             ELSE Value([index \in DOMAIN daily.time |->
                     [day         |-> index,
                      date        |-> daily.time[index],
                      temperature |-> RoundTenth(At(daily.temperature_2m_max,
                                                    index)),
                      humidity    |-> RoundTenth(HumidityOr50(
                                          daily.relative_humidity_2m_mean,
                                          index)),
                      wind_speed  |-> RoundTenth(At(daily.wind_speed_10m_max,
                                                    index)),
                      source      |-> "open-meteo"]])

\* the dates of list in order of first appearance (the keys of dailyMap)
RECURSIVE DailyDates(_, _)
DailyDates(list, dates) ==
    IF list = <<>> THEN dates
    ELSE DailyDates(Tail(list),
                    IF \E i \in DOMAIN dates : dates[i] = Head(list).date
                    THEN dates ELSE Append(dates, Head(list).date))

RECURSIVE Sum(_)
Sum(values) == IF values = <<>> THEN 0 ELSE Head(values) + Sum(Tail(values))

\* round(sum / n * 10) / 10 in hundredths
RoundedMean(values) ==
    ((2 * Sum(values) + 10 * Len(values)) \div (20 * Len(values))) * 10

\* the try block of the OpenWeatherMap tier of getLiveForecast (lines
\* 311-337): the three-hourly entries grouped by date, the first seven dates
OpenWeatherMapForecastTry(response) ==
    IF response.kind # "ok" THEN Thrown
    ELSE IF response.data = Undefined THEN Thrown
    ELSE IF response.data.list = Undefined THEN Thrown
    ELSE LET list == response.data.list
             dates == DailyDates(list, <<>>)
             Of(date) == SelectSeq(list, LAMBDA entry : entry.date = date)
             Field(entries, Get(_)) ==
                 [i \in DOMAIN entries |-> Get(entries[i])]
         IN  Value([index \in 1..Min(Len(dates), ForecastDays) |->
                 LET entries == Of(dates[index])
                 IN  [day         |-> index,
                      date        |-> dates[index],
                      temperature |-> RoundTenth(MathMax(
                                          Field(entries, LAMBDA e : e.temp))),
                      humidity    |-> RoundedMean(
                                          Field(entries, LAMBDA e : e.humidity)),
                      wind_speed  |-> RoundedMean(
                                          Field(entries, LAMBDA e : e.speed)),
                      source      |-> "openweathermap"]])

\* generate7DayForecast(city) with its Math.random() draws (lines 350-373)
generate7DayForecast(city, stream) ==
    LET baseWeather == getMockWeather(city, Draw(stream, 0), Draw(stream, 1),
                                      Draw(stream, 2))
    IN  [index \in 1..ForecastDays |->
            LET day == index - 1
                temp == baseWeather.temperature * RandomDen
                            + 600 * Draw(stream, 3 + 3 * day)
                            - 300 * RandomDen
                            + (IF day < 3 THEN 100 ELSE -100) * RandomDen
                hum == baseWeather.humidity * RandomDen
                           + 1500 * Draw(stream, 4 + 3 * day) - 700 * RandomDen
            IN  [day         |-> day + 1,
                 date        |-> day,
                 temperature |-> IF IsNum(baseWeather.temperature)
                                 THEN RoundTenthOver(temp) ELSE NaN,
                 humidity    |-> IF IsNum(baseWeather.humidity)
                                 THEN RoundTenthOver(
                                          Min(Max(hum, 1000 * RandomDen),
                                              9500 * RandomDen))
                                 ELSE NaN,
                 wind_speed  |-> RoundTenthOver(
                                     1500 * Draw(stream, 5 + 3 * day)
                                         + 200 * RandomDen),
                 source      |-> "mock"]]

\* the callback of forecastData.map in the catch of predictForecast (lines
\* 88-103)
ForecastFallback(data) ==
    LET Made[riskScore \in Int] ==
            [day           |-> data.day,
             date          |-> data.date,
             risk_score    |-> riskScore,
             risk_category |-> classifyRisk(riskScore),
             confidence    |-> 850,
             source        |-> "fallback"]
    IN  Made[computeRiskScoreFallback(data.temperature, data.humidity,
                                      data.wind_speed)]

\* the try block of predictForecast returns (lines 77-83)
BatchAnswered(response) ==
    /\ response.kind = "ok"
    /\ response.data # Undefined
    /\ response.data.success = "true"

\* predictForecast(forecastData) once the ML service has answered
predictForecast(forecastData, response) ==
    IF BatchAnswered(response) THEN response.data.predictions
    ELSE [i \in DOMAIN forecastData |-> ForecastFallback(forecastData[i])]

\* x || fallback for a number: 0, NaN and undefined are falsy
NumOr(v, fallback) == IF IsNum(v) /\ v # 0 THEN v ELSE fallback

\* risk_score: predictions[index]?.risk_score || 0 and its two siblings
\* (lines 24-29), predictions being an array
ForecastEntry(day, predictions, index) ==
    LET found == index \in DOMAIN predictions
                     /\ Truthy(predictions[index])
    IN  [day           |-> day.day,
         date          |-> day.date,
         temperature   |-> day.temperature,
         humidity      |-> day.humidity,
         wind_speed    |-> day.wind_speed,
         source        |-> day.source,
         risk_score    |-> IF found
                           THEN NumOr(predictions[index].risk_score, 0)
                           ELSE 0,
         risk_category |-> IF found /\ TruthyStr(predictions[index].risk_category)
                           THEN predictions[index].risk_category ELSE "Low",
         confidence    |-> IF found
                           THEN NumOr(predictions[index].confidence, 0)
                           ELSE 0]

\* lines 21-45 of the route once predictForecast has returned: indexing
\* undefined throws, and the catch answers 500
ForecastAnswer(call, predictions, answered) ==
    IF predictions = Undefined
    THEN [call EXCEPT !.pc = "responded", !.predictions = predictions,
                      !.batch = answered, !.status = 500]
    ELSE [call EXCEPT
             !.pc = "responded",
             !.predictions = predictions,
             !.batch = answered,
             !.status = 200,
             !.forecast = [index \in DOMAIN call.forecastWeather |->
                              ForecastEntry(call.forecastWeather[index],
                                            predictions, index)],
             !.source = IF call.forecastWeather # <<>>
                        THEN call.forecastWeather[1].source ELSE "mock"]

\* The answers of the three services are listed as sequences.
\* What Open-Meteo may answer to the daily request: failures, bodies
\* without the block or without an array of it, and blocks of seven days,
\* of three days and of seven days whose humidity is missing
DailyBlock(n) ==
    [time                      |-> [i \in 1..n |-> i - 1],
     temperature_2m_max        |-> [i \in 1..n |-> 3512 + 104 * i],
     temperature_2m_min        |-> [i \in 1..n |-> 2408 + 51 * i],
     relative_humidity_2m_mean |-> [i \in 1..n |-> 3004 + 311 * i],
     wind_speed_10m_max        |-> [i \in 1..n |-> 904 + 102 * i],
     weather_code              |-> [i \in 1..n |-> 1]]

ForecastOpenMeteoResponses ==
    <<Timeout, Ok(Undefined), Ok([daily |-> Undefined]),
     Ok([daily |-> [DailyBlock(ForecastDays)
                        EXCEPT !.temperature_2m_max = Undefined]]),
     Ok([daily |-> [DailyBlock(ForecastDays)
                        EXCEPT !.relative_humidity_2m_mean = Undefined]]),
     Ok([daily |-> DailyBlock(ForecastDays)]),
     Ok([daily |-> DailyBlock(3)])>>

\* what OpenWeatherMap may answer: a failure, a body without the list, and
\* two entries a day for n days
ThreeHourly(n) ==
    [i \in 1..2 * n |->
        [date |-> (i - 1) \div 2, temp |-> 3300 + 37 * i,
         humidity |-> 4000 + 200 * i, speed |-> 600 + 40 * i]]

ForecastOpenWeatherMapResponses ==
    <<NetworkError, Ok([list |-> Undefined]), Ok([list |-> ThreeHourly(5)]),
      Ok([list |-> ThreeHourly(ForecastDays + 1)])>>

\* what the ML service may answer to the batch: failures, success false, a
\* prediction per day, no predictions, and predictions for the first two
\* days only
BatchPredictions(n) ==
    [i \in 1..n |-> [day |-> i, risk_score |-> 40000 + 5500 * i,
                     risk_category |-> classifyRisk(40000 + 5500 * i),
                     confidence |-> 900 + i]]

ForecastMlResponses(forecastData) ==
    <<Timeout, HttpError, Ok(Undefined),
     Ok([success |-> "false", predictions |-> Undefined]),
     Ok([success |-> "true",
         predictions |-> BatchPredictions(Len(forecastData))]),
     Ok([success |-> "true", predictions |-> Undefined]),
     Ok([success |-> "true",
         predictions |-> BatchPredictions(Min(2, Len(forecastData)))])>>

\* the answers among responses that a request for city can get: the
\* providers refuse a request without coordinates
Answers(city, responses) ==
    {k \in DOMAIN responses :
        city \in InheritedKeys => responses[k].kind # "ok"}

\* the route once getLiveForecast has returned forecastWeather
ForecastResolved(call, forecastWeather) ==
    [call EXCEPT !.pc = "ml", !.forecastWeather = forecastWeather]

\* the catch of getLiveForecast after Open-Meteo failed (lines 308-343)
AfterOpenMeteoForecast(call) ==
    IF TruthyStr(apiKey) /\ TruthyStr(Coords(call.city))
    THEN [call EXCEPT !.pc = "openweathermap"]
    ELSE ForecastResolved(call, generate7DayForecast(call.city, call.stream))

ForecastCities == {"Delhi", "Atlantis", "constructor", NoString}
ForecastStreams == {<<0, 1>>, <<2, 3>>}

ForecastGet ==
    /\ forecast = Idle
    /\ \E query \in ForecastCities, stream \in ForecastStreams :
           LET city == IF TruthyStr(query) THEN query ELSE "Delhi"
               call == [pc |-> "open-meteo", city |-> city, stream |-> stream,
                        forecastWeather |-> <<>>, predictions |-> <<>>,
                        batch |-> FALSE,
                        status |-> 0, forecast |-> <<>>, source |-> NoString]
           IN  forecast' = IF TruthyStr(Coords(city)) THEN call
                           ELSE ForecastResolved(call,
                                    generate7DayForecast(city, stream))
    /\ UNCHANGED <<env, apiKey, budget, clientVars, store, scoreVars, live, serverVars,
                   hourly, risk>>

ForecastOpenMeteoSettles ==
    /\ forecast.pc = "open-meteo"
    /\ \E k \in Answers(forecast.city, ForecastOpenMeteoResponses) :
           LET r == OpenMeteoForecastTry(ForecastOpenMeteoResponses[k])
           IN  forecast' = IF r.thrown THEN AfterOpenMeteoForecast(forecast)
                           ELSE ForecastResolved(forecast, r.value)
    /\ UNCHANGED <<env, apiKey, budget, clientVars, store, scoreVars, live, serverVars,
                   hourly, risk>>

ForecastOpenWeatherMapSettles ==
    /\ forecast.pc = "openweathermap"
    /\ \E k \in Answers(forecast.city, ForecastOpenWeatherMapResponses) :
           LET r == OpenWeatherMapForecastTry(
                        ForecastOpenWeatherMapResponses[k])
           IN  forecast' =
                   IF r.thrown
                   THEN ForecastResolved(forecast,
                            generate7DayForecast(forecast.city,
                                                 forecast.stream))
                   ELSE ForecastResolved(forecast, r.value)
    /\ UNCHANGED <<env, apiKey, budget, clientVars, store, scoreVars, live, serverVars,
                   hourly, risk>>

ForecastMlSettles ==
    /\ forecast.pc = "ml"
    /\ \E k \in DOMAIN ForecastMlResponses(forecast.forecastWeather) :
           LET response == ForecastMlResponses(forecast.forecastWeather)[k]
           IN  \E predictions \in {predictForecast(forecast.forecastWeather,
                                                    response)} :
                   forecast' = ForecastAnswer(forecast, predictions,
                                              BatchAnswered(response))
    /\ UNCHANGED <<env, apiKey, budget, clientVars, store, scoreVars, live, serverVars,
                   hourly, risk>>

ForecastInit ==
    /\ env = FullEnv
    /\ apiKey \in ApiKeys
    /\ budget = [cycles |-> 0, requests |-> 0]
    /\ scorer = Idle
    /\ predict = Idle
    /\ predicted = <<>>
    /\ live = Idle
    /\ ServerDown
    /\ RoutesIdle
    /\ NoStore
    /\ NoClient

ForecastNext ==
    \/ ForecastGet
    \/ ForecastOpenMeteoSettles
    \/ ForecastOpenWeatherMapSettles
    \/ ForecastMlSettles

SpecForecast == ForecastInit /\ [][ForecastNext]_vars

(***************************************************************************)
(* The browser.  Every client specification starts from a server that is   *)
(* not modelled further: its answers arrive as events.                     *)
(***************************************************************************)
ServerAside ==
    /\ env = FullEnv
    /\ apiKey = NoString
    /\ budget = [cycles |-> 0, requests |-> 0]
    /\ scorer = Idle
    /\ predict = Idle
    /\ predicted = <<>>
    /\ live = Idle
    /\ ServerDown
    /\ RoutesIdle
    /\ NoStore

(***************************************************************************)
(* The dashboard (App): selectedCity, the ref that follows it, riskData,   *)
(* loading, error, and the fetchData calls awaiting Promise.all.           *)
(***************************************************************************)
MaxFetches == 3
DashCities == {"Delhi", "Mumbai", "Chennai"}

\* fetchData(city) up to its await (lines 44-52)
fetchData(state, city) ==
    [state EXCEPT !.loading = TRUE, !.error = FALSE,
                  !.fetches = Append(@, city), !.fetched = @ + 1]

\* the first render and its effects: the ref, and fetchData(selectedCity)
PageMounted ==
    fetchData([selectedCity |-> "Delhi", selectedCityRef |-> "Delhi",
               riskData |-> Null, loading |-> TRUE, error |-> FALSE,
               fetches |-> <<>>, fetched |-> 0], "Delhi")

\* handleCitySelect(city) and the effects of lines 39-41 and 72-74, which
\* run when selectedCity has changed
SelectCity ==
    /\ page.fetched < MaxFetches
    /\ \E city \in DashCities \ {page.selectedCity} :
           page' = fetchData([page EXCEPT !.selectedCity = city,
                                          !.selectedCityRef = city], city)
    /\ UNCHANGED <<env, apiKey, budget, store, scoreVars, live, serverVars,
                   routeVars, chart, client>>

\* the backup poll of lines 143-148 fires while the socket is not connected
Poll ==
    /\ page.fetched < MaxFetches
    /\ page' = fetchData(page, page.selectedCity)
    /\ UNCHANGED <<env, apiKey, budget, store, scoreVars, live, serverVars,
                   routeVars, chart, client>>

Without(fetches, i) ==
    SubSeq(fetches, 1, i - 1) \o SubSeq(fetches, i + 1, Len(fetches))

\* lines 53-57 and 62: the three requests of call i have answered; the risk
\* answer names the city it was asked for
FetchResolved(state, i) ==
    [state EXCEPT !.riskData = [city |-> state.fetches[i], by |-> "fetchData"],
                  !.loading = FALSE,
                  !.fetches = Without(@, i)]

\* lines 58-62: one of the three requests of call i has failed
FetchRejected(state, i) ==
    [state EXCEPT !.error = TRUE, !.loading = FALSE,
                  !.fetches = Without(@, i)]

FetchSettles ==
    /\ \E i \in DOMAIN page.fetches :
           page' \in {FetchResolved(page, i), FetchRejected(page, i)}
    /\ UNCHANGED <<env, apiKey, budget, store, scoreVars, live, serverVars,
                   routeVars, chart, client>>

\* lines 90-112: a weather:update with a data array arrives; the array has
\* an entry for the city of the ref, or (its task failed) it has none
WeatherUpdateArrives ==
    /\ \E found \in BOOLEAN :
           page' = [page EXCEPT
                       !.riskData = IF found
                                    THEN [city |-> page.selectedCityRef,
                                          by |-> "weather:update"]
                                    ELSE @,
                       !.loading = FALSE, !.error = FALSE]
    /\ UNCHANGED <<env, apiKey, budget, store, scoreVars, live, serverVars,
                   routeVars, chart, client>>

\* lines 115-125: a city:update for some city arrives
CityUpdateArrives ==
    /\ \E city \in DashCities :
           page' = IF city = page.selectedCityRef
                   THEN [page EXCEPT !.riskData = [city |-> city,
                                                   by |-> "city:update"]]
                   ELSE page
    /\ UNCHANGED <<env, apiKey, budget, store, scoreVars, live, serverVars,
                   routeVars, chart, client>>

DashboardInit ==
    /\ ServerAside
    /\ page = PageMounted
    /\ chart = Idle
    /\ client = Idle

DashboardNext ==
    \/ SelectCity
    \/ Poll
    \/ FetchSettles
    \/ WeatherUpdateArrives
    \/ CityUpdateArrives

SpecDashboard == DashboardInit /\ [][DashboardNext]_vars

(***************************************************************************)
(* The forecast chart: selectedDay, hourlyData, hourlySummary,             *)
(* loadingHourly, and the getHourlyHeatData requests of handleBarClick     *)
(* that have not answered yet.                                             *)
(***************************************************************************)
MaxClicks == 3
ChartDays == {"2026-02-28", "2026-03-01"}

ChartMounted ==
    [city |-> "Delhi", selectedDay |-> NoString, hourlyData |-> Null,
     hourlySummary |-> Null, loadingHourly |-> FALSE, requests |-> <<>>,
     clicks |-> 0]

\* lines 102-104, and the button of line 135
Deselected(state) ==
    [state EXCEPT !.selectedDay = NoString, !.hourlyData = Null,
                  !.hourlySummary = Null]

\* handleBarClick(entry) up to its await (lines 97-113)
handleBarClick(state, date) ==
    IF state.selectedDay = date
    THEN [Deselected(state) EXCEPT !.clicks = @ + 1]
    ELSE [state EXCEPT !.selectedDay = date, !.loadingHourly = TRUE,
                       !.requests = Append(@, [city |-> state.city,
                                               date |-> date]),
                       !.clicks = @ + 1]

BarClick ==
    /\ chart.clicks < MaxClicks
    /\ \E date \in ChartDays : chart' = handleBarClick(chart, date)
    /\ UNCHANGED <<env, apiKey, budget, store, scoreVars, live, serverVars,
                   routeVars, page, client>>

CloseClick ==
    /\ chart.selectedDay # NoString
    /\ chart' = Deselected(chart)
    /\ UNCHANGED <<env, apiKey, budget, store, scoreVars, live, serverVars,
                   routeVars, page, client>>

\* the city prop changes: the effect of lines 81-85
ChartCityChanges ==
    /\ chart.clicks < MaxClicks
    /\ \E city \in {"Delhi", "Mumbai"} \ {chart.city} :
           chart' = [Deselected(chart) EXCEPT !.city = city, !.clicks = @ + 1]
    /\ UNCHANGED <<env, apiKey, budget, store, scoreVars, live, serverVars,
                   routeVars, page, client>>

\* lines 114-115 and 120: request i has answered, with the hourly points
\* and the summary of the city and date it named
HourlyResolved(state, i) ==
    [state EXCEPT !.hourlyData = state.requests[i],
                  !.hourlySummary = state.requests[i],
                  !.loadingHourly = FALSE,
                  !.requests = Without(@, i)]

\* lines 116-120: request i has failed
HourlyRejected(state, i) ==
    [state EXCEPT !.hourlyData = Null, !.loadingHourly = FALSE,
                  !.requests = Without(@, i)]

HourlySettles ==
    /\ \E i \in DOMAIN chart.requests :
           chart' \in {HourlyResolved(chart, i), HourlyRejected(chart, i)}
    /\ UNCHANGED <<env, apiKey, budget, store, scoreVars, live, serverVars,
                   routeVars, page, client>>

ChartInit ==
    /\ ServerAside
    /\ page = Idle
    /\ chart = ChartMounted
    /\ client = Idle

ChartNext == BarClick \/ CloseClick \/ ChartCityChanges \/ HourlySettles

SpecChart == ChartInit /\ [][ChartNext]_vars

(***************************************************************************)
(* The socket module of the browser: the sockets io() has made, each       *)
(* connecting (or reconnecting), connected or closed by disconnect(), and  *)
(* the module's variable socket, 0 for null.                               *)
(***************************************************************************)
MaxClientSockets == 3
MaxEmits == 2

ModuleLoaded == [sockets |-> <<>>, socket |-> 0, emitted |-> <<>>]

\* socket && socket.connected
SocketConnected(state) ==
    state.socket # 0 /\ state.sockets[state.socket] = "connected"

\* connectSocket(): lines 148-172
connectSocket(state) ==
    IF SocketConnected(state) THEN state
    ELSE [state EXCEPT !.sockets = Append(@, "connecting"),
                       !.socket = Len(state.sockets) + 1]

\* disconnectSocket(): lines 177-182
disconnectSocket(state) ==
    IF state.socket # 0
    THEN [state EXCEPT !.sockets[state.socket] = "closed", !.socket = 0]
    ELSE state

\* requestCityUpdate(city): lines 216-220
requestCityUpdate(state, city) ==
    IF SocketConnected(state)
    THEN [state EXCEPT !.emitted = Append(@,
              [event |-> "request:city", city |-> city, on |-> state.socket,
               connected |-> state.sockets[state.socket] = "connected"])]
    ELSE state

ConnectSocket ==
    /\ Len(client.sockets) < MaxClientSockets
    /\ client' = connectSocket(client)
    /\ UNCHANGED <<env, apiKey, budget, store, scoreVars, live, serverVars,
                   routeVars, page, chart>>

DisconnectSocket ==
    /\ client' = disconnectSocket(client)
    /\ UNCHANGED <<env, apiKey, budget, store, scoreVars, live, serverVars,
                   routeVars, page, chart>>

RequestCityUpdate ==
    /\ Len(client.emitted) < MaxEmits
    /\ \E city \in {"Delhi", "Mumbai"} :
           client' = requestCityUpdate(client, city)
    /\ UNCHANGED <<env, apiKey, budget, store, scoreVars, live, serverVars,
                   routeVars, page, chart>>

\* the transport of a socket that has not been closed comes up
TransportUp ==
    /\ \E i \in DOMAIN client.sockets :
           /\ client.sockets[i] = "connecting"
           /\ client' = [client EXCEPT !.sockets[i] = "connected"]
    /\ UNCHANGED <<env, apiKey, budget, store, scoreVars, live, serverVars,
                   routeVars, page, chart>>

\* the transport of a connected socket is lost; with reconnection: true the
\* socket goes back to connecting
TransportDown ==
    /\ \E i \in DOMAIN client.sockets :
           /\ client.sockets[i] = "connected"
           /\ client' = [client EXCEPT !.sockets[i] = "connecting"]
    /\ UNCHANGED <<env, apiKey, budget, store, scoreVars, live, serverVars,
                   routeVars, page, chart>>

ClientInit ==
    /\ ServerAside
    /\ page = Idle
    /\ chart = Idle
    /\ client = ModuleLoaded

ClientNext ==
    \/ ConnectSocket
    \/ DisconnectSocket
    \/ RequestCityUpdate
    \/ TransportUp
    \/ TransportDown

SpecClient == ClientInit /\ [][ClientNext]_vars

(***************************************************************************)
(* Properties of the resolver (SpecResolver).                              *)
(***************************************************************************)
ProviderTags == {"open-meteo", "openweathermap", "mock"}

\* a tier has failed: timeout, network or HTTP error, or a body lacking a
\* block the tier reads
OpenMeteoFailed(response) ==
    \/ response.kind # "ok"
    \/ response.data = Undefined
    \/ response.data.current = Undefined

OpenWeatherMapFailed(response) ==
    \/ response.kind # "ok"
    \/ response.data = Undefined
    \/ response.data.main = Undefined
    \/ response.data.wind = Undefined
    \/ response.data.weather = <<>>

\* C1: getLiveWeather never rejects: for every city id and every outcome of
\* the two providers, configured or not, a call is either suspended on a
\* request or has returned a Measurement of the requested city carrying a
\* provider tag.
C1_ResolveNeverRejects ==
    live # Idle =>
        /\ live.pc \in {"open-meteo", "openweathermap", "returned"}
        /\ live.pc = "returned" =>
               /\ Truthy(live.weather)
               /\ live.weather.city = live.city
               /\ live.weather.source \in ProviderTags

\* both providers answered with a malformed body and the call still returned
C1_Witness ==
    /\ live # Idle
    /\ live.pc = "returned"
    /\ Len(live.answers) = 2
    /\ live.answers[1].kind = "ok"
    /\ live.answers[2].kind = "ok"
    /\ live.weather.source = "mock"

\* C2: the tiers are tried in the order Open-Meteo, OpenWeatherMap, mock.
\* OpenWeatherMap is asked only with an API key and after Open-Meteo failed;
\* mock data is returned only when every request sent has failed and, for a
\* city with coordinates, every configured provider has been asked; nothing
\* is asked after a tier has produced the Measurement; and the source tag is
\* that of the tier that produced it.
C2_TierOrder ==
    live # Idle =>
        /\ live.tried \in {<<>>, <<"open-meteo">>,
                           <<"open-meteo", "openweathermap">>}
        /\ Len(live.answers) <= Len(live.tried)
        /\ Len(live.tried) = 2 =>
               /\ TruthyStr(apiKey)
               /\ OpenMeteoFailed(live.answers[1])
        /\ live.pc = "returned" =>
               /\ Len(live.answers) = Len(live.tried)
               /\ live.weather.source = "mock" =>
                      /\ \A i \in 1..Len(live.answers) :
                             IF i = 1 THEN OpenMeteoFailed(live.answers[i])
                             ELSE OpenWeatherMapFailed(live.answers[i])
                      /\ TruthyStr(Coords(live.city)) =>
                             Len(live.tried) = IF TruthyStr(apiKey) THEN 2 ELSE 1
                      /\ ~TruthyStr(Coords(live.city)) => live.tried = <<>>
               /\ live.weather.source = "open-meteo" =>
                      /\ live.tried = <<"open-meteo">>
                      /\ ~OpenMeteoFailed(live.answers[1])
                      /\ live.weather =
                             OpenMeteoTry(live.city, live.answers[1]).value
               /\ live.weather.source = "openweathermap" =>
                      /\ live.tried = <<"open-meteo", "openweathermap">>
                      /\ ~OpenWeatherMapFailed(live.answers[2])
                      /\ live.weather =
                             OpenWeatherMapTry(live.city, live.answers[2]).value

\* OpenWeatherMap produced the Measurement after Open-Meteo timed out
C2_Witness ==
    /\ live # Idle
    /\ live.pc = "returned"
    /\ live.weather.source = "openweathermap"
    /\ live.answers[1] = Timeout

(***************************************************************************)
(* Properties of the scorer and the scoring gateway (SpecScore).           *)
(***************************************************************************)
\* C3: predictRisk never rejects, and whenever the ML call fails (timeout,
\* transport or HTTP error, empty body, success false or absent) it returns
\* the prediction computed locally from the temperature, humidity and wind
\* speed it was called with, tagged "fallback".
C3_ScoreNeverRejects ==
    \A i \in 1..Len(predicted) :
        LET p == predicted[i]
        IN  /\ p.call.pc = "returned"
            /\ MlFailed(p.response) =>
                   /\ p.call.prediction.source = "fallback"
                   /\ p.call.prediction.input =
                          [temperature |-> scorer.temperature,
                           humidity    |-> scorer.humidity,
                           wind_speed  |-> scorer.wind_speed]
                   /\ p.call.prediction.risk_score =
                          computeRiskScoreFallback(scorer.temperature,
                              scorer.humidity, scorer.wind_speed)
                   /\ p.call.prediction.risk_category =
                          classifyRisk(p.call.prediction.risk_score)

\* the service answered success: false together with a prediction, and the
\* local one was returned
C3_Witness ==
    \E i \in 1..Len(predicted) :
        /\ predicted[i].response.kind = "ok"
        /\ predicted[i].response.data # Undefined
        /\ predicted[i].response.data.success = "false"
        /\ predicted[i].response.data.prediction # Undefined
        /\ predicted[i].call.pc = "returned"
        /\ predicted[i].call.prediction.source = "fallback"

Unreachable(response) == response.kind \in {"timeout", "network", "http-error"}

\* C4: with the ML service unreachable, all predictRisk calls on one input
\* return the same risk score and category, and these are the score and
\* category RiskScorer.score gives for that input.
C4_FallbackIdempotent ==
    \A i \in 1..Len(predicted) :
        Unreachable(predicted[i].response) =>
            /\ \A j \in 1..Len(predicted) :
                   Unreachable(predicted[j].response) =>
                       /\ predicted[j].call.prediction.risk_score =
                              predicted[i].call.prediction.risk_score
                       /\ predicted[j].call.prediction.risk_category =
                              predicted[i].call.prediction.risk_category
            /\ scorer.pc = "scored" =>
                   /\ predicted[i].call.prediction.risk_score = scorer.score
                   /\ predicted[i].call.prediction.risk_category =
                          scorer.category

\* two calls failed in different ways after the scorer was applied
C4_Witness ==
    /\ scorer.pc = "scored"
    /\ IsNum(scorer.score)
    /\ scorer.wind_speed # scorer.humidity
    /\ Len(predicted) >= 2
    /\ predicted[1].response = Timeout
    /\ predicted[2].response = NetworkError

\* C5: for numeric inputs the score lies in [0, 100] and the category is Low
\* exactly below 25, Medium in [25, 50), High in [50, 75) and Severe from 75;
\* 49.999 is Medium.
C5_ScoreRangeAndCategory ==
    /\ classifyRisk(49999) = "Medium"
    /\ (scorer.pc = "scored" /\ IsNum(scorer.temperature)) =>
           /\ IsNum(scorer.score)
           /\ scorer.score >= 0
           /\ scorer.score <= 100000
           /\ scorer.category = "Low" <=> scorer.score < 25000
           /\ scorer.category = "Medium" <=>
                  (scorer.score >= 25000 /\ scorer.score < 50000)
           /\ scorer.category = "High" <=>
                  (scorer.score >= 50000 /\ scorer.score < 75000)
           /\ scorer.category = "Severe" <=> scorer.score >= 75000
           /\ scorer.score = 24990 => scorer.category = "Low"
           /\ scorer.score = 25000 => scorer.category = "Medium"
           /\ scorer.score = 50000 => scorer.category = "High"
           /\ scorer.score = 75000 => scorer.category = "Severe"

\* an input whose score is exactly 25.00
C5_Witness ==
    /\ scorer.pc = "scored"
    /\ scorer.score = 25000
    /\ scorer.category = "Medium"

(***************************************************************************)
(* Properties of the broadcast engine and the sockets (Spec).              *)
(***************************************************************************)
Entries(payload, city) ==
    {i \in 1..Len(payload.data) : payload.data[i].city = city}

C7_ReplayOnAttach ==
    [][\A s \in SocketIds :
          (/\ sockets[s].status = "unborn"
           /\ sockets'[s].status = "connected"
           /\ Truthy(lastBroadcastData)) =>
              /\ sockets'[s].update = lastBroadcastData
              /\ Len(sockets'[s].update.data) >= 1]_vars

\* a socket was greeted with the first snapshot while no cycle was running
C7_Witness ==
    \E s \in SocketIds :
        /\ sockets[s].status = "connected"
        /\ sockets[s].greeted
        /\ started = 1
        /\ cycles = <<>>
        /\ sockets[s].update = lastBroadcastData

Observable ==
    {p \in {lastBroadcastData} \cup {sockets[s].update : s \in SocketIds} :
        Truthy(p)}

\* C8: every snapshot retained or sent belongs to a cycle that is no longer
\* collecting and holds an entry for every city of the registry; a socket
\* connecting in mid-cycle is sent such a snapshot.
C8_NoPartialSnapshot ==
    \A p \in Observable :
        /\ p.cycle \notin DOMAIN cycles
        /\ \A city \in CitySet : Cardinality(Entries(p, city)) = 1

\* a socket was greeted with the previous snapshot while a later cycle had
\* some but not all of its tasks settled
C8_Witness ==
    \E s \in SocketIds, c \in DOMAIN cycles :
        /\ sockets[s].greeted
        /\ sockets[s].update.cycle < c
        /\ \E city \in CitySet : Settled(cycles[c][city])

Published(c) == c \in 1..started /\ c \notin DOMAIN cycles

\* C9: the retained snapshot, and the latest snapshot of every connected
\* socket, is that of the latest started cycle among the published ones.
C9_NoRegress ==
    \A p \in {lastBroadcastData} \cup
             {sockets[s].update : s \in {t \in SocketIds :
                                           sockets[t].status = "connected"}} :
        Truthy(p) => \A c \in 1..started : Published(c) => c <= p.cycle

PointsOf(s, r) ==
    {i \in 1..Len(sockets[s].points) : sockets[s].points[i].request = r}

C10_State ==
    \A r \in DOMAIN requests :
        LET q == requests[r]
        IN  /\ IF Settled(q.chain)
               THEN /\ Len(q.emitted) = 1
                    /\ q.emitted[1].event \in {"city:update", "city:error"}
                    /\ q.emitted[1].to = q.socket
                    /\ q.emitted[1].city = q.city
               ELSE q.emitted = <<>>
            /\ \A s \in SocketIds \ {q.socket} : PointsOf(s, r) = {}
            /\ Cardinality(PointsOf(q.socket, r)) <= 1
            /\ (Settled(q.chain) /\ sockets[q.socket].status = "connected") =>
                   Cardinality(PointsOf(q.socket, r)) = 1
            /\ \A i \in PointsOf(q.socket, r) :
                   /\ sockets[q.socket].points[i].city = q.city
                   /\ sockets[q.socket].points[i].event = q.emitted[1].event

C10_Step ==
    requests' # requests =>
        /\ lastBroadcastData' = lastBroadcastData
        /\ \A s \in SocketIds : sockets'[s].update = sockets[s].update

\* C10: a request:city handler emits exactly one event, city:update or
\* city:error with the requested city, on the requesting socket; no other
\* socket receives it, and no weather:update is sent or retained for it.
C10_OneEventToRequester == []C10_State /\ [][C10_Step]_vars

\* a request was answered while a second socket was connected
C10_Witness ==
    \E r \in DOMAIN requests, s \in SocketIds :
        /\ Settled(requests[r].chain)
        /\ s # requests[r].socket
        /\ sockets[s].status = "connected"
        /\ sockets[s].points = <<>>
        /\ Cardinality(PointsOf(requests[r].socket, r)) = 1

\* C11: no step of a request:city handler changes the retained snapshot, nor
\* the tasks a broadcast cycle in flight has collected, nor the array the
\* last publication was built from; what a cycle publishes is a function of
\* its own tasks alone.
C11_RequestsLeaveSnapshot ==
    [][requests' # requests =>
          /\ lastBroadcastData' = lastBroadcastData
          /\ cycles' = cycles
          /\ resolved' = resolved
          /\ started' = started]_vars

\* a request was answered while the first cycle was collecting, and the
\* cycle then published a snapshot of every city
C11_Witness ==
    \E r \in DOMAIN requests, s \in SocketIds :
        /\ Truthy(lastBroadcastData)
        /\ Len(lastBroadcastData.data) = NumCities
        /\ PointsOf(s, r) # {}
        /\ \A i \in PointsOf(s, r) :
               sockets[s].points[i].timestamp < lastBroadcastData.timestamp

AllDown == env = World(CityIds, FALSE, FALSE)

Synthetic(payload) ==
    /\ Len(payload.data) = NumCities
    /\ \A i \in 1..NumCities :
           /\ payload.data[i].city = getSupportedCities[i]
           /\ payload.data[i].weather.source = "mock"
           /\ payload.data[i].prediction.source = "fallback"

\* every cycle of the run has been started and has published
C13_AllPublished ==
    /\ listening
    /\ started = budget.cycles
    /\ \A c \in 1..started : Published(c)
    /\ Truthy(lastBroadcastData)

C13_Degraded == AllDown => \A p \in Observable : Synthetic(p)

\* C13: the first cycle starts in the listen callback and one more at every
\* tick, whatever became of the earlier ones; every started cycle publishes
\* once its outbound requests have been answered or have timed out; with
\* every provider and the ML service down each published snapshot holds all
\* cities, with mock measurements and fallback predictions.
C13_LoopNeverHalts == []C13_Degraded /\ <>C13_AllPublished

\* with everything down the last cycle of the run has published a snapshot
\* of mock measurements and fallback predictions
C13_Witness ==
    /\ AllDown
    /\ started = MaxCycles
    /\ cycles = <<>>
    /\ Truthy(lastBroadcastData)
    /\ lastBroadcastData.cycle = MaxCycles
    /\ Synthetic(lastBroadcastData)

(***************************************************************************)
(* Properties of predictRisk, continued (SpecScore).                       *)
(***************************************************************************)
\* C14: with the ML service unreachable, predictRisk(42, 20, 5) returns the
\* category Severe, the source "fallback" and the confidence 85.0.
C14_HotDrySevere ==
    \A i \in 1..Len(predicted) :
        (/\ Unreachable(predicted[i].response)
         /\ predicted[i].call.temperature = 4200
         /\ predicted[i].call.humidity = 2000
         /\ predicted[i].call.wind_speed = 500) =>
            /\ predicted[i].call.prediction.risk_category = "Severe"
            /\ predicted[i].call.prediction.source = "fallback"
            /\ predicted[i].call.prediction.confidence = 850
\* C15: when the ML service answers success: true, predictRisk returns the
\* service's prediction, and every prediction predictRisk returns carries a
\* source: "fallback" when it was computed locally, a source other than
\* "fallback" when the service made it.
C15_SourceTagged ==
    \A i \in 1..Len(predicted) :
        LET p == predicted[i].call.prediction
        IN  /\ p # Undefined
            /\ "source" \in DOMAIN p
            /\ IF MlFailed(predicted[i].response) THEN p.source = "fallback"
               ELSE /\ p = predicted[i].response.data.prediction
                    /\ p.source # "fallback"
\* C16: every prediction predictRisk returns, and so every prediction put
\* into a snapshot or a city:update, has a risk score between 0 and 100 and
\* the category classifyRisk gives for that score, whether the ML service or
\* the catch block made it and whatever the service answered.
C16_ScoreAndCategoryAgree ==
    \A i \in 1..Len(predicted) :
        LET p == predicted[i].call.prediction
        IN  /\ p # Undefined
            /\ IsNum(p.risk_score)
            /\ p.risk_score >= 0
            /\ p.risk_score <= 100000
            /\ p.risk_category = classifyRisk(p.risk_score)
(***************************************************************************)
(* Properties of the broadcast schedule (Spec).                            *)
(***************************************************************************)
\* C17: at most one call of broadcastWeatherUpdate is collecting results at
\* any time; a tick that fires while one is collecting starts no second one.
C17_OneCycleAtATime == Cardinality(DOMAIN cycles) <= 1

(***************************************************************************)
(* Properties of getLiveWeather, continued (SpecResolver).                 *)
(***************************************************************************)
\* C18: for a city that is not one of the cities of CITY_COORDS,
\* getLiveWeather sends no request to Open-Meteo or OpenWeatherMap and
\* returns mock data at once.
C18_UnknownCityNoRequest ==
    (live # Idle /\ live.city \notin OwnKeys) =>
        /\ live.tried = <<>>
        /\ live.pc = "returned"
        /\ live.weather.source = "mock"
(***************************************************************************)
(* Properties of the broadcast engine and the sockets, continued (Spec).   *)
(***************************************************************************)
\* C19: the latest weather:update of every connected socket is the retained
\* payload: one publication sends the same payload to all of them and
\* retains it, and a socket connecting later is sent that payload.
C19_SamePayload ==
    \A s \in SocketIds :
        sockets[s].status = "connected" =>
            sockets[s].update = lastBroadcastData

\* one socket was sent the payload by a publication, another on connecting
C19_Witness ==
    \E s, t \in SocketIds :
        /\ sockets[s].status = "connected"
        /\ sockets[t].status = "connected"
        /\ ~sockets[s].greeted
        /\ sockets[t].greeted
        /\ Truthy(sockets[s].update)
        /\ sockets[s].update = sockets[t].update

(***************************************************************************)
(* Properties of the payload (SpecPayload).                                *)
(***************************************************************************)
\* the number of entries of payload whose weather carries tag
Carrying(payload, tag) ==
    Cardinality({i \in 1..Len(payload.data) :
                    payload.data[i].weather.source = tag})

\* C20: the source field of every published snapshot is the dominant
\* provider tag of that snapshot: no provider tag is carried by more of its
\* entries than the tag in its source field.
C20_DominantSource ==
    Truthy(lastBroadcastData) =>
        \A tag \in ProviderTags :
            Carrying(lastBroadcastData, lastBroadcastData.source)
                >= Carrying(lastBroadcastData, tag)

(***************************************************************************)
(* Properties of the hourly route (SpecHourly).                            *)
(***************************************************************************)
\* C21: every hourly point's trend tag is rising exactly when its delta is
\* above 0.3, falling exactly when its delta is below -0.3 and stable
\* otherwise, a delta of 0.30 or -0.30 being stable, whether Open-Meteo or
\* the synthetic generator made the point.
C21_TrendTags ==
    hourly.pc = "responded" =>
        \A i \in DOMAIN hourly.hourly :
            LET point == hourly.hourly[i]
                delta == point.change
            IN  /\ point.trend \in {"rising", "falling", "stable"}
                /\ point.trend = "rising" <=> (IsNum(delta) /\ delta > 30)
                /\ point.trend = "falling" <=> (IsNum(delta) /\ delta < -30)

\* an answer made from the provider's data with a point on either boundary
\* and points beyond them
C21_Witness ==
    /\ hourly.pc = "responded"
    /\ hourly.source = "open-meteo"
    /\ \E i, j, k, l \in DOMAIN hourly.hourly :
           /\ hourly.hourly[i].change = 30
           /\ hourly.hourly[j].change = -30
           /\ hourly.hourly[k].change = 40
           /\ hourly.hourly[l].change = -40

\* C22: the hourly route always answers with success and with exactly 24
\* hourly points, one per hour 0..23 in order, whatever the city and
\* whatever Open-Meteo answered.
C22_TwentyFourPoints ==
    hourly.pc = "responded" =>
        /\ hourly.status = 200
        /\ Len(hourly.hourly) = HoursPerDay
        /\ \A i \in DOMAIN hourly.hourly : hourly.hourly[i].hour = i - 1

(***************************************************************************)
(* Properties of the risk route and of start-up (FairSpecRisk).            *)
(***************************************************************************)
\* the answer the route gives when there is no store at all
StorelessAnswer(call) ==
    IF call.chain.stage = "ok"
    THEN [status |-> 200, weather |-> call.chain.weather,
          prediction |-> call.chain.prediction, city |-> call.city]
    ELSE [status |-> 500, weather |-> Null, prediction |-> Null,
          city |-> NoString]

C23_SameAnswer ==
    risk.pc = "responded" =>
        /\ StorelessAnswer(risk) =
               [status |-> risk.status, weather |-> risk.body.weather,
                prediction |-> risk.body.prediction, city |-> risk.body.city]
        /\ risk.stored # "none" => risk.status = 200

C23_Started == listening /\ started >= 1

\* C23: the answer of GET /api/risk/predict (weather, prediction, city) is
\* the one given without a store, whether the RiskRecord model is absent,
\* the save succeeds or the save fails; a failed save never gives an error
\* response; and the server comes to listen and to its first broadcast
\* call whether connectDB connected or failed.
C23_StoreIsOptional == []C23_SameAnswer /\ <>C23_Started

\* the server is up without a database, and a request whose save failed
\* has been answered
C23_Witness ==
    /\ C23_Started
    /\ store.connection = "failed"
    /\ store.RiskRecord # Null
    /\ risk.pc = "responded"
    /\ risk.stored = "rejected"
    /\ risk.status = 200

(***************************************************************************)
(* Properties of the resolver, continued (SpecResolver).                   *)
(***************************************************************************)
\* C24: a response of Open-Meteo that lacks the current block or its
\* temperature, humidity or wind speed counts as a failure of the tier, so
\* no weather that getLiveWeather returns with the tag of a live provider
\* has a temperature, humidity or wind speed that is not a number.
C24_LiveMeasurementsNumeric ==
    (live.pc = "returned" /\ live.weather.source \in {"open-meteo",
                                                      "openweathermap"}) =>
        /\ IsNum(live.weather.temperature)
        /\ IsNum(live.weather.humidity)
        /\ IsNum(live.weather.wind_speed)

(***************************************************************************)
(* Properties of the forecast route (SpecForecast).                        *)
(***************************************************************************)
\* C25: the 7-day forecast response has one entry per day of the resolved
\* forecast, in the same order, entry i carrying the risk_score,
\* risk_category and confidence of prediction i; and when the batch call
\* failed, the predictions are as many as the days, prediction i being the
\* local computation on day i with confidence 85.0.
C25_ParallelPredictions ==
    forecast.pc = "responded" =>
        /\ forecast.status = 200
        /\ Len(forecast.forecast) = Len(forecast.forecastWeather)
        /\ Len(forecast.predictions) = Len(forecast.forecastWeather)
        /\ \A i \in DOMAIN forecast.forecast :
               /\ forecast.forecast[i].day = forecast.forecastWeather[i].day
               /\ forecast.forecast[i].date = forecast.forecastWeather[i].date
               /\ forecast.forecast[i].risk_score
                      = forecast.predictions[i].risk_score
               /\ forecast.forecast[i].risk_category
                      = forecast.predictions[i].risk_category
               /\ forecast.forecast[i].confidence
                      = forecast.predictions[i].confidence
        /\ ~forecast.batch =>
               \A i \in DOMAIN forecast.predictions :
                   /\ forecast.predictions[i].confidence = 850
                   /\ forecast.predictions[i].risk_score
                          = computeRiskScoreFallback(
                                forecast.forecastWeather[i].temperature,
                                forecast.forecastWeather[i].humidity,
                                forecast.forecastWeather[i].wind_speed)

(***************************************************************************)
(* Properties of the broadcast engine, continued (Spec).                   *)
(***************************************************************************)
\* the place of city in getSupportedCities()
RegistryIndex(city) ==
    CHOOSE i \in 1..Len(getSupportedCities) : getSupportedCities[i] = city

\* C26: the entries of every snapshot retained or sent are in the order of
\* getSupportedCities(), whatever order the cities' tasks settled in, and
\* no city has two entries.
C26_RegistryOrder ==
    \A p \in Observable :
        /\ \A i \in 1..Len(p.data) : p.data[i].city \in CitySet
        /\ \A i, j \in 1..Len(p.data) :
               i < j => RegistryIndex(p.data[i].city)
                            < RegistryIndex(p.data[j].city)

\* a snapshot with every city has been published, and a cycle is collecting
\* whose last city has settled before its first
C26_Witness ==
    /\ Truthy(lastBroadcastData)
    /\ Len(lastBroadcastData.data) = NumCities
    /\ \E c \in DOMAIN cycles :
           /\ Settled(cycles[c][getSupportedCities[NumCities]])
           /\ ~Settled(cycles[c][getSupportedCities[1]])

\* nothing has been published: no socket has been sent a weather:update
C27_State ==
    ~Truthy(lastBroadcastData) =>
        \A s \in SocketIds : ~sockets[s].greeted /\ sockets[s].update = Null

\* the first publication reaches every socket connected at that time
C27_Step ==
    (~Truthy(lastBroadcastData) /\ Truthy(lastBroadcastData')) =>
        \A s \in SocketIds :
            sockets[s].status = "connected" =>
                /\ sockets'[s].update = lastBroadcastData'
                /\ sockets'[s].status = "connected"

\* C27: a socket that connects before any cycle has published is sent no
\* weather:update by the connection handler, neither null nor a
\* placeholder, and is sent the first snapshot when the first cycle
\* publishes if it is still connected then.
C27_NothingBeforeFirstSnapshot == []C27_State /\ [][C27_Step]_vars

\* a socket that connected before the first publication holds the first
\* snapshot, sent by the publication and not by the connection handler
C27_Witness ==
    \E s \in SocketIds :
        /\ sockets[s].status = "connected"
        /\ ~sockets[s].greeted
        /\ Truthy(sockets[s].update)
        /\ sockets[s].update.cycle = 1
        /\ started = 1

(***************************************************************************)
(* Properties of the dashboard (SpecDashboard).                            *)
(***************************************************************************)
\* C28: once every fetchData call has completed, and none of them failed
\* last, the risk data the dashboard holds is that of the selected city:
\* an answer for a city selected earlier never replaces the data of the
\* city selected after it, in whatever order the answers arrive.
C28_RiskDataOfSelectedCity ==
    (page.fetches = <<>> /\ ~page.error /\ page.riskData # Null) =>
        page.riskData.city = page.selectedCity

(***************************************************************************)
(* Properties of the forecast chart (SpecChart).                           *)
(***************************************************************************)
\* C29: once loading has finished and no hourly request is outstanding,
\* the hourly data and the summary the chart holds while a day is selected
\* are those of that day and of the chart's city: an answer for a day
\* clicked earlier never replaces them.
C29_HourlyOfSelectedDay ==
    (chart.requests = <<>> /\ ~chart.loadingHourly
         /\ chart.selectedDay # NoString) =>
        /\ chart.hourlyData # Null =>
               /\ chart.hourlyData.date = chart.selectedDay
               /\ chart.hourlyData.city = chart.city
        /\ chart.hourlySummary # Null =>
               /\ chart.hourlySummary.date = chart.selectedDay
               /\ chart.hourlySummary.city = chart.city

(***************************************************************************)
(* Properties of the browser's socket module (SpecClient).                 *)
(***************************************************************************)
\* C30: the socket module keeps at most one live connection: every socket
\* it has made other than the one its variable refers to has been closed
\* with disconnect(), and every request:city was emitted on a socket that
\* was connected.
C30_OneLiveSocket ==
    /\ \A i \in DOMAIN client.sockets :
           i # client.socket => client.sockets[i] = "closed"
    /\ \A e \in DOMAIN client.emitted : client.emitted[e].connected

====
